---- MODULE Spec2Model ----
(***************************************************************************)
(* Model of the reservation backend, netlify/functions/create-draft-order. *)
(* One handler invocation is a process whose steps are the code segments   *)
(* between two awaits: each action lets the awaited external call return   *)
(* (with the outcome the backend chooses) and runs the handler up to the   *)
(* next await or return.  The commerce backend is the shared state: the    *)
(* product metafields and the draft orders.                                *)
(***************************************************************************)
EXTENDS Integers, Sequences, FiniteSets, TLC

VARIABLES
    env,        \* process.env of the deployment (lines 4-8)
    budget,     \* how many external calls of one invocation the environment may fail
    products,   \* backend: product id -> its custom.* metafields
    draftOrders,\* backend: the draft orders created so far, in creation order
    pc,         \* per invocation: the await the handler is suspended at
    event,      \* per invocation: the inbound event
    frame,      \* per invocation: the handler's local variables
    response,   \* per invocation: the value the handler returned
    calls,      \* per invocation: the axios calls issued so far, in order
    faults,     \* per invocation: how many of its external calls have failed
    overlapped, \* some invocation started while another one was in progress
    page        \* the storefront page: the submit button and the submission under way

vars == <<env, budget, products, draftOrders, pc, event, frame, response,
          calls, faults, overlapped, page>>

----------------------------------------------------------------------------
(* Bounds of the model *)

MaxFaults == 1      \* failed external calls per invocation
MaxItems == 2       \* line items per draft order
NumRequests == 2    \* invocations in the multi-request specification
MaxLaterFaults == 10      \* failed calls of a request served by the unreliable backend
MaxSubmissions == 3 \* submissions of the storefront form on one page
RandGrid == 18000   \* Math.random() is drawn from {k / RandGrid}

----------------------------------------------------------------------------
(* Strings are sequences of tokens; text the code builds is a concatenation *)

Absent == "<absent>"        \* undefined / null / missing
NullId == "null"            \* let productId = null

RECURSIVE Join(_, _)
\* Array.prototype.join: the parts with sep between two neighbours
Join(parts, sep) ==
    IF Len(parts) = 0 THEN <<>>
    ELSE IF Len(parts) = 1 THEN parts[1]
    ELSE parts[1] \o sep \o Join(Tail(parts), sep)

DigitChars == <<"0", "1", "2", "3", "4", "5", "6", "7", "8", "9">>

IsDigit(c) == \E i \in 1..10 : DigitChars[i] = c

RECURSIVE NumberToString(_)
\* Number.prototype.toString of a non-negative integer
NumberToString(n) ==
    IF n < 10 THEN <<DigitChars[n + 1]>>
    ELSE NumberToString(n \div 10) \o <<DigitChars[(n % 10) + 1]>>

\* String.prototype.substr(start, length), start counted from 0
Substr(s, start, length) ==
    SubSeq(s, start + 1, IF start + length < Len(s) THEN start + length ELSE Len(s))

RECURSIVE PadStart(_, _, _)
\* String.prototype.padStart with a one-character filler
PadStart(s, targetLength, filler) ==
    IF Len(s) >= targetLength THEN s
    ELSE PadStart(<<filler>> \o s, targetLength, filler)

----------------------------------------------------------------------------
(* generateReservationNumber, lines 253-265 *)

\* What one invocation reads from new Date() and Math.random(): the date
\* (getMonth() is 0-based) and the numerator k of the draw k / RandGrid in
\* [0, 1).  A padded date with the lowest draw, an unpadded one with the highest.
Draws == { [now |-> [year |-> 2025, month |-> 0, day |-> 5], k |-> 0],
           [now |-> [year |-> 2026, month |-> 10, day |-> 30], k |-> RandGrid - 1] }

\* mutant: Math.round in place of Math.floor
randomSuffixRounded(k) == 1000 + ((2 * k * 9000 + RandGrid) \div (2 * RandGrid))

\* Math.floor(1000 + Math.random() * 9000)
randomSuffix(k) == 1000 + ((k * 9000) \div RandGrid)

\* mutant: month and day are not padded
UnpaddedReservationNumber(now, k) ==
    <<"R", "E", "S", "-">> \o Substr(NumberToString(now.year), 2, 2)
        \o NumberToString(now.month + 1) \o NumberToString(now.day) \o <<"-">>
        \o NumberToString(randomSuffix(k))

generateReservationNumber(now, k) ==
    LET year  == Substr(NumberToString(now.year), 2, 2)
        month == PadStart(NumberToString(now.month + 1), 2, "0")
        day   == PadStart(NumberToString(now.day), 2, "0")
    IN  <<"R", "E", "S", "-">> \o year \o month \o day \o <<"-">>
            \o NumberToString(randomSuffix(k))

\* /^RES-\d{6}-\d{4}$/ (the tests' expectation, part_000 line 178)
MatchesReservationFormat(s) ==
    /\ Len(s) = 15
    /\ SubSeq(s, 1, 4) = <<"R", "E", "S", "-">>
    /\ \A i \in 5..10 : IsDigit(s[i])
    /\ s[11] = "-"
    /\ \A i \in 12..15 : IsDigit(s[i])

----------------------------------------------------------------------------
(* Deployment configuration, lines 4-8.  An unset variable is the empty     *)
(* string (falsy); the shop domain and the API version are always set.      *)

SHOP_DOMAIN == "test-shop.myshopify.com"
TEST_SECRET == "test-secret"
TEST_TOKEN == "test-token"
TEST_RECAPTCHA_KEY == "recaptcha-secret"

Envs == [ SHOPIFY_ACCESS_TOKEN : {"", TEST_TOKEN},
          SHOPIFY_API_SECRET   : {"", TEST_SECRET},
          RECAPTCHA_SECRET_KEY : {"", TEST_RECAPTCHA_KEY} ]

\* mutant: a fourth header is sent along
corsHeadersWithCredentials ==
    { <<"Access-Control-Allow-Origin", "*">>,
      <<"Access-Control-Allow-Headers", "Content-Type">>,
      <<"Access-Control-Allow-Methods", "POST, OPTIONS">>,
      <<"Access-Control-Allow-Credentials", "true">> }

\* mutant: the allowed methods are not announced
corsHeadersWithoutMethods ==
    { <<"Access-Control-Allow-Origin", "*">>,
      <<"Access-Control-Allow-Headers", "Content-Type">> }

\* 'Access-Control-Allow-*' headers, lines 11-15
corsHeaders == { <<"Access-Control-Allow-Origin", "*">>,
                 <<"Access-Control-Allow-Headers", "Content-Type">>,
                 <<"Access-Control-Allow-Methods", "POST, OPTIONS">> }

----------------------------------------------------------------------------
(* verifyShopifySignature, lines 668-736.  A query is the supplied          *)
(* signature and the remaining parameters (const {signature, ...params}),   *)
(* a sequence of <<key, value>> pairs in insertion order.  The hex digest   *)
(* of HMAC-SHA256 is modelled as an injective function of key and message.  *)

NoSig == <<>>       \* no signature parameter (or an empty one)

\* crypto.createHmac('sha256', secret).update(message).digest('hex')
Hmac(secret, message) == <<"hmac-sha256", secret, "|">> \o message

\* the keys the model uses, in the order String sort() puts them
KeyOrder == <<"path_prefix", "shop", "timestamp">>

KeyRank(key) == CHOOSE i \in 1..Len(KeyOrder) : KeyOrder[i] = key

\* Object.keys(params)
ObjectKeys(params) == [i \in 1..Len(params) |-> params[i][1]]

HasKey(params, key) == \E i \in 1..Len(params) : params[i][1] = key

\* params[key], "undefined" inside a template literal when the key is missing
Param(params, key) ==
    IF HasKey(params, key)
    THEN params[CHOOSE i \in 1..Len(params) : params[i][1] = key][2]
    ELSE "undefined"

RECURSIVE SortKeys(_)
\* Array.prototype.sort() on the keys
SortKeys(keys) ==
    IF Len(keys) = 0 THEN <<>>
    ELSE LET m == CHOOSE i \in 1..Len(keys) :
                     \A j \in 1..Len(keys) : KeyRank(keys[i]) <= KeyRank(keys[j])
             rest == [j \in 1..(Len(keys) - 1) |-> IF j < m THEN keys[j] ELSE keys[j + 1]]
         IN  <<keys[m]>> \o SortKeys(rest)

\* keys.map(key => `${key}=${params[key]}`)
KeyValuePairs(params, keys) ==
    [i \in 1..Len(keys) |-> <<keys[i], "=", Param(params, keys[i])>>]

\* params.shop || SHOP_DOMAIN
ShopOrDefault(params) ==
    IF HasKey(params, "shop") /\ Param(params, "shop") # "" THEN Param(params, "shop")
    ELSE SHOP_DOMAIN

\* Method 4: all params sorted, no separator (lines 678-681)
Method4String(params) == Join(KeyValuePairs(params, SortKeys(ObjectKeys(params))), <<>>)

\* the fallback methods 1, 2, 3, 5, 6 in the order of the array (lines 693-719)
FallbackStrings(params) ==
    << <<"shop", "=", ShopOrDefault(params), "&", "timestamp", "=", Param(params, "timestamp")>>,
       <<"shop", "=", ShopOrDefault(params), "timestamp", "=", Param(params, "timestamp")>>,
       Join(KeyValuePairs(params, SortKeys(ObjectKeys(params))), <<"&">>),
       Join(KeyValuePairs(params, ObjectKeys(params)), <<"&">>),
       Join(KeyValuePairs(params, ObjectKeys(params)), <<>>) >>

FallbackLabels == <<"Method 1", "Method 2", "Method 3", "Method 5", "Method 6">>

verifyShopifySignature(secret, query) ==
    IF query.signature = NoSig \/ secret = ""
    THEN [valid |-> FALSE, method |-> "Missing signature or API secret"]
    ELSE IF query.signature = Hmac(secret, Method4String(query.params))
    THEN [valid |-> TRUE, method |-> "Method 4"]
    ELSE LET strings == FallbackStrings(query.params)
             hits == {i \in 1..Len(strings) : query.signature = Hmac(secret, strings[i])}
         IN  IF hits # {}
             THEN [valid |-> TRUE,
                   method |-> FallbackLabels[CHOOSE i \in hits : \A j \in hits : i <= j]]
             ELSE [valid |-> FALSE, method |-> "All signature methods failed"]

----------------------------------------------------------------------------
(* The inbound events the model draws from *)

TimestampParam == <<"timestamp", "1609459200">>
ShopParam == <<"shop", SHOP_DOMAIN>>
OtherShopParam == <<"shop", "other-shop.myshopify.com">>

\* event.queryStringParameters without the signature, in insertion order
ParamLists == { <<>>,
                <<ShopParam>>,
                <<TimestampParam>>,
                <<ShopParam, TimestampParam>>,
                <<TimestampParam, ShopParam>>,
                <<TimestampParam, OtherShopParam>> }

\* what a sender can put in the signature parameter: nothing, junk, or a
\* digest of any of the six derivations under the shared or another secret
Signatures(params) ==
    {NoSig, <<"junk">>, Hmac("another-secret", Method4String(params)),
     Hmac(TEST_SECRET, Method4String(params))}
        \cup {Hmac(TEST_SECRET, FallbackStrings(params)[i]) : i \in 1..5}

Queries == UNION { {[signature |-> s, params |-> p] : s \in Signatures(p)} : p \in ParamLists }

\* the query the test suite's base event carries, signed canonically
ValidQuery == [signature |-> Hmac(TEST_SECRET, Method4String(<<ShopParam, TimestampParam>>)),
               params |-> <<ShopParam, TimestampParam>>]

Products == {"67890", "67891"}
Variants == {"12345", "12346", "12347"}

\* the backend's variant table: two variants of one product, one of another
VariantProduct(v) == IF v = "12347" THEN "67891" ELSE "67890"

LineItem(v) == [variant_id |-> v, product_id |-> Absent]

\* draft_order.line_items: up to MaxItems items, each with or without a variant
LineItemLists ==
    UNION { [1..n -> {LineItem(v) : v \in Variants \cup {Absent}}] : n \in 0..MaxItems }

NoteText == <<"Practice Name: Test Practice">>
TagsText == <<"web-reservation">>

DraftOrder(items, note, tags) ==
    [given |-> TRUE, line_items |-> items, note |-> note, tags |-> tags]

NoDraftOrder == [given |-> FALSE, line_items |-> <<>>, note |-> <<>>, tags |-> <<>>]

SimpleDraftOrder == DraftOrder(<<LineItem("12345")>>, NoteText, <<>>)

\* every list of line items, and every way to give or omit the note and the tags
DraftOrders ==
    {DraftOrder(items, NoteText, <<>>) : items \in LineItemLists}
        \cup {DraftOrder(<<LineItem("12345")>>, note, tags) :
                note \in {<<>>, NoteText}, tags \in {<<>>, TagsText}}

DECLARED_ACTION == "reserve_product"

\* event.body: missing, '', 'null', text that is no JSON, or a JSON object
RawBody(kind) ==
    [kind |-> kind, draft_order |-> NoDraftOrder, recaptcha_token |-> "", recaptcha_action |-> ""]

ObjectBody(draft, token, action) ==
    [kind |-> "object", draft_order |-> draft, recaptcha_token |-> token, recaptcha_action |-> action]

GateBodies ==
    {RawBody(k) : k \in {"absent", "empty", "null", "invalid"}}
        \cup {ObjectBody(NoDraftOrder, "token", DECLARED_ACTION)}
        \cup {ObjectBody(SimpleDraftOrder, t, a) : t \in {"", "token"}, a \in {"", DECLARED_ACTION}}

\* every method, body shape and query, around one simple draft order
GateEvents ==
    [httpMethod : {"OPTIONS", "GET", "POST"}, body : GateBodies, query : Queries]

\* well-formed signed POSTs, over every draft order
FlowEvents ==
    {[httpMethod |-> "POST", body |-> ObjectBody(d, "token", DECLARED_ACTION), query |-> ValidQuery] :
        d \in DraftOrders}

Events == GateEvents \cup FlowEvents

\* well-formed signed POSTs for one variant, with or without note and tags
NotedEvents ==
    {e \in FlowEvents : e.body.draft_order.line_items = <<LineItem("12345")>>}

\* a variant id in its namespaced URI form
UriVariant == "gid://shopify/ProductVariant/12345"

\* a well-formed signed POST whose line item names its variant by URI
UriEvents ==
    {[httpMethod |-> "POST",
      body |-> ObjectBody(DraftOrder(<<LineItem(UriVariant)>>, NoteText, <<>>), "token", DECLARED_ACTION),
      query |-> ValidQuery]}

\* a well-formed signed POST for two variants of two products, and one whose
\* first line item has no variant
TwoItemEvents ==
    {e \in FlowEvents : e.body.draft_order.line_items \in
        { <<LineItem("12347"), LineItem("12345")>>, <<LineItem(Absent), LineItem("12346")>> }}

\* signed reservations of one variant each, for the multi-request runs
SingleItemEvents ==
    {[httpMethod |-> "POST",
      body |-> ObjectBody(DraftOrder(<<LineItem(v)>>, NoteText, <<>>), "token", DECLARED_ACTION),
      query |-> ValidQuery] : v \in Variants}

----------------------------------------------------------------------------
(* The handler, lines 17-663, cut at its awaits.  A segment yields the      *)
(* await it suspends at (or "done"), the locals, the returned value and     *)
(* the axios call it issued.                                                *)

Requests == DOMAIN pc

NoResponse == [statusCode |-> 0]

EmptyFrame ==
    [ draft_order |-> NoDraftOrder,     \* requestBody.draft_order, mutated in place
      i |-> 0,                          \* index of the line item being looked up
      productId |-> NullId,
      reservationNumber |-> <<>>,
      draftOrderId |-> 0,
      existingMetafields |-> [availability_status |-> Absent, reservation_number |-> Absent],
      metafieldResult |-> [kind |-> "null"],
      metafieldResults |-> <<>> ]       \* one success flag per order metafield

NoEvent == [httpMethod |-> Absent, body |-> RawBody("absent"),
            query |-> [signature |-> NoSig, params |-> <<>>]]

Return(f, statusCode, headers, body) ==
    [pc |-> "done", frame |-> f, issued |-> <<>>,
     response |-> [statusCode |-> statusCode, headers |-> headers, body |-> body]]

Await(f, at, call) ==
    [pc |-> at, frame |-> f, issued |-> <<call>>, response |-> NoResponse]

\* mutant: the backend's error detail is looked at before the 401
CatchErrorsFirst(f, error) ==
    IF error.status # 0 /\ error.errors
    THEN Return(f, error.status, corsHeaders,
                [success |-> FALSE, error |-> "<error.response.data.errors>"])
    ELSE IF error.status = 401
    THEN Return(f, 401, corsHeaders,
                [success |-> FALSE, error |-> "Access token expired or invalid"])
    ELSE Return(f, 500, corsHeaders, [success |-> FALSE, error |-> error.message])

\* mutant: a failed call is answered by posting the draft order again
CatchRetryingCreate(f, error) == Await(f, "create", <<"POST", "draft_orders.json">>)

\* mutant: the generic failure reports the error's message as it is
CatchWithoutFallback(f, error) ==
    IF error.status = 401
    THEN Return(f, 401, corsHeaders,
                [success |-> FALSE, error |-> "Access token expired or invalid"])
    ELSE IF error.status # 0 /\ error.errors
    THEN Return(f, error.status, corsHeaders,
                [success |-> FALSE, error |-> "<error.response.data.errors>"])
    ELSE Return(f, 500, corsHeaders, [success |-> FALSE, error |-> error.message])

\* the outer catch, lines 626-662; an error without .response has status 0
Catch(f, error) ==
    IF error.status = 401
    THEN Return(f, 401, corsHeaders,
                [success |-> FALSE, error |-> "Access token expired or invalid"])
    ELSE IF error.status # 0 /\ error.errors
    THEN Return(f, error.status, corsHeaders,
                [success |-> FALSE, error |-> "<error.response.data.errors>"])
    ELSE Return(f, 500, corsHeaders,
                [success |-> FALSE,
                 error |-> IF error.message # "" THEN error.message ELSE "Server error"])

ThrownError(message) == [status |-> 0, errors |-> FALSE, message |-> message]

\* the nine draft-order metafields, lines 480-535
draftOrderMetafields ==
    <<"reservation.reservation_number", "reservation.stocking_number",
      "reservation.practice_name", "reservation.customer_email",
      "reservation.customer_zip_code", "reservation.customer_role",
      "reservation.product_title", "reservation.reservation_date",
      "reservation.hold_duration">>

\* lines 298-310: the reservation number goes in front of the note and the tags
PrependToNote(reservationNumber, note) ==
    IF note # <<>>
    THEN <<"Reservation Number: ">> \o reservationNumber \o <<"\n\n">> \o note
    ELSE <<"Reservation Number: ">> \o reservationNumber

\* mutant: the reservation number goes behind the caller's tags
AppendToTags(reservationNumber, tags) ==
    IF tags # <<>> THEN tags \o <<", ">> \o reservationNumber ELSE reservationNumber

PrependToTags(reservationNumber, tags) ==
    IF tags # <<>> THEN reservationNumber \o <<", ">> \o tags ELSE reservationNumber

\* mutant: the product is marked before the draft order is posted
SubmitDraftOrderAfterMarking(f, now, k) ==
    IF f.productId # NullId
    THEN Await([f EXCEPT !.reservationNumber = generateReservationNumber(now, k)],
               "availability", <<"PUT", "metafields", "availability_status">>)
    ELSE Await([f EXCEPT !.reservationNumber = generateReservationNumber(now, k)],
               "create", <<"POST", "draft_orders.json">>)

\* lines 252-329: number the reservation and post the draft order
SubmitDraftOrder(f, now, k) ==
    LET reservationNumber == generateReservationNumber(now, k)
        d == f.draft_order
    IN  Await([f EXCEPT !.reservationNumber = reservationNumber,
                        !.draft_order.note = PrependToNote(reservationNumber, d.note),
                        !.draft_order.tags = PrependToTags(reservationNumber, d.tags)],
              "create", <<"POST", "draft_orders.json">>)

\* lines 182-243 from item `from` on: suspend at the next item with a variant_id
ProcessLineItems(f, from, now, k) ==
    LET items == f.draft_order.line_items
        withVariant == {j \in from..Len(items) : items[j].variant_id # Absent}
    IN  IF withVariant # {}
        THEN LET j == CHOOSE x \in withVariant : \A y \in withVariant : x <= y
             IN  Await([f EXCEPT !.i = j], "variant", <<"GET", "variants", items[j].variant_id>>)
        ELSE SubmitDraftOrder(f, now, k)

\* mutant: the first variant lookup is started before the checks are made
CheckSignatureAfterLookup(e, f, now, k) ==
    LET started == ProcessLineItems(f, 1, now, k).issued
    IN  IF e.query.signature = NoSig \/ ~HasKey(e.query.params, "timestamp")
        THEN [Return(f, 400, corsHeaders, [error |-> "Missing required query parameters"])
                 EXCEPT !.issued = started]
        ELSE IF ~verifyShopifySignature(env.SHOPIFY_API_SECRET, e.query).valid
        THEN [Return(f, 401, corsHeaders, [error |-> "Invalid signature"])
                 EXCEPT !.issued = started]
        ELSE IF env.SHOPIFY_ACCESS_TOKEN = ""
        THEN [Return(f, 500, corsHeaders,
                     [error |-> "Server configuration error - missing access token"])
                 EXCEPT !.issued = started]
        ELSE ProcessLineItems(f, 1, now, k)

\* mutant: only the signature is required, not the timestamp
CheckSignatureOnly(e, f, now, k) ==
    IF e.query.signature = NoSig
    THEN Return(f, 400, corsHeaders, [error |-> "Missing required query parameters"])
    ELSE IF ~verifyShopifySignature(env.SHOPIFY_API_SECRET, e.query).valid
    THEN Return(f, 401, corsHeaders, [error |-> "Invalid signature"])
    ELSE IF env.SHOPIFY_ACCESS_TOKEN = ""
    THEN Return(f, 500, corsHeaders,
                [error |-> "Server configuration error - missing access token"])
    ELSE ProcessLineItems(f, 1, now, k)

\* mutant: the access token is looked for before the signature is checked
CheckSignatureCredentialFirst(e, f, now, k) ==
    IF e.query.signature = NoSig \/ ~HasKey(e.query.params, "timestamp")
    THEN Return(f, 400, corsHeaders, [error |-> "Missing required query parameters"])
    ELSE IF env.SHOPIFY_ACCESS_TOKEN = ""
    THEN Return(f, 500, corsHeaders,
                [error |-> "Server configuration error - missing access token"])
    ELSE IF ~verifyShopifySignature(env.SHOPIFY_API_SECRET, e.query).valid
    THEN Return(f, 401, corsHeaders, [error |-> "Invalid signature"])
    ELSE ProcessLineItems(f, 1, now, k)

\* lines 140-170: query parameters, signature, access token
CheckSignature(e, f, now, k) ==
    IF e.query.signature = NoSig \/ ~HasKey(e.query.params, "timestamp")
    THEN Return(f, 400, corsHeaders, [error |-> "Missing required query parameters"])
    ELSE IF ~verifyShopifySignature(env.SHOPIFY_API_SECRET, e.query).valid
    THEN Return(f, 401, corsHeaders, [error |-> "Invalid signature"])
    ELSE IF env.SHOPIFY_ACCESS_TOKEN = ""
    THEN Return(f, 500, corsHeaders,
                [error |-> "Server configuration error - missing access token"])
    ELSE ProcessLineItems(f, 1, now, k)

\* mutant: the body is parsed before the method is looked at
handlerParsingFirst(e, now, k) ==
    IF e.httpMethod = "OPTIONS"
    THEN [pc |-> "done", frame |-> EmptyFrame, issued |-> <<>>,
          response |-> [statusCode |-> 204, headers |-> corsHeaders]]
    ELSE IF e.body.kind = "invalid"
    THEN Catch(EmptyFrame, ThrownError("SyntaxError: Unexpected token in JSON"))
    ELSE IF e.body.kind = "null"
    THEN Catch(EmptyFrame, ThrownError("TypeError: Cannot destructure property 'draft_order'"))
    ELSE IF e.httpMethod # "POST"
    THEN Return(EmptyFrame, 405, corsHeaders, [error |-> "Method not allowed"])
    ELSE IF ~e.body.draft_order.given
    THEN Return(EmptyFrame, 400, corsHeaders, [error |-> "Missing draft order data"])
    ELSE LET f == [EmptyFrame EXCEPT !.draft_order = e.body.draft_order]
         IN  IF env.RECAPTCHA_SECRET_KEY # ""
             THEN IF e.body.recaptcha_token = ""
                  THEN Return(f, 400, corsHeaders,
                              [error |-> "reCAPTCHA verification failed: No token provided"])
                  ELSE Await(f, "recaptcha", <<"POST", "recaptcha/api/siteverify">>)
             ELSE CheckSignature(e, f, now, k)

\* mutant: a token is required whether or not the secret key is configured
handlerAlwaysRequiringToken(e, now, k) ==
    IF e.httpMethod = "OPTIONS"
    THEN [pc |-> "done", frame |-> EmptyFrame, issued |-> <<>>,
          response |-> [statusCode |-> 204, headers |-> corsHeaders]]
    ELSE IF e.httpMethod # "POST"
    THEN Return(EmptyFrame, 405, corsHeaders, [error |-> "Method not allowed"])
    ELSE IF e.body.kind = "invalid"
    THEN Catch(EmptyFrame, ThrownError("SyntaxError: Unexpected token in JSON"))
    ELSE IF e.body.kind = "null"
    THEN Catch(EmptyFrame, ThrownError("TypeError: Cannot destructure property 'draft_order'"))
    ELSE IF ~e.body.draft_order.given
    THEN Return(EmptyFrame, 400, corsHeaders, [error |-> "Missing draft order data"])
    ELSE LET f == [EmptyFrame EXCEPT !.draft_order = e.body.draft_order]
         IN  IF e.body.recaptcha_token = ""
             THEN Return(f, 400, corsHeaders,
                         [error |-> "reCAPTCHA verification failed: No token provided"])
             ELSE IF env.RECAPTCHA_SECRET_KEY # ""
             THEN Await(f, "recaptcha", <<"POST", "recaptcha/api/siteverify">>)
             ELSE CheckSignature(e, f, now, k)

\* mutant: a body that is no JSON is answered as a client error
handlerRejectingBadJson(e, now, k) ==
    IF e.httpMethod = "OPTIONS"
    THEN [pc |-> "done", frame |-> EmptyFrame, issued |-> <<>>,
          response |-> [statusCode |-> 204, headers |-> corsHeaders]]
    ELSE IF e.httpMethod # "POST"
    THEN Return(EmptyFrame, 405, corsHeaders, [error |-> "Method not allowed"])
    ELSE IF e.body.kind = "invalid"
    THEN Return(EmptyFrame, 400, corsHeaders, [success |-> FALSE, error |-> "Invalid JSON body"])
    ELSE IF e.body.kind = "null"
    THEN Catch(EmptyFrame, ThrownError("TypeError: Cannot destructure property 'draft_order'"))
    ELSE IF ~e.body.draft_order.given
    THEN Return(EmptyFrame, 400, corsHeaders, [error |-> "Missing draft order data"])
    ELSE LET f == [EmptyFrame EXCEPT !.draft_order = e.body.draft_order]
         IN  IF env.RECAPTCHA_SECRET_KEY # ""
             THEN IF e.body.recaptcha_token = ""
                  THEN Return(f, 400, corsHeaders,
                              [error |-> "reCAPTCHA verification failed: No token provided"])
                  ELSE Await(f, "recaptcha", <<"POST", "recaptcha/api/siteverify">>)
             ELSE CheckSignature(e, f, now, k)

\* lines 17-70: method, body, the first part of the reCAPTCHA gate
handler(e, now, k) ==
    IF e.httpMethod = "OPTIONS"
    THEN [pc |-> "done", frame |-> EmptyFrame, issued |-> <<>>,
          response |-> [statusCode |-> 204, headers |-> corsHeaders]]
    ELSE IF e.httpMethod # "POST"
    THEN Return(EmptyFrame, 405, corsHeaders, [error |-> "Method not allowed"])
    ELSE IF e.body.kind = "invalid"
    THEN Catch(EmptyFrame, ThrownError("SyntaxError: Unexpected token in JSON"))
    ELSE IF e.body.kind = "null"
    THEN Catch(EmptyFrame, ThrownError("TypeError: Cannot destructure property 'draft_order'"))
    ELSE IF ~e.body.draft_order.given
    THEN Return(EmptyFrame, 400, corsHeaders, [error |-> "Missing draft order data"])
    ELSE LET f == [EmptyFrame EXCEPT !.draft_order = e.body.draft_order]
         IN  IF env.RECAPTCHA_SECRET_KEY # ""
             THEN IF e.body.recaptcha_token = ""
                  THEN Return(f, 400, corsHeaders,
                              [error |-> "reCAPTCHA verification failed: No token provided"])
                  ELSE Await(f, "recaptcha", <<"POST", "recaptcha/api/siteverify">>)
             ELSE CheckSignature(e, f, now, k)

\* what siteverify can answer; the score is in tenths, and NoScore when the
\* answer has no score (data.score is undefined)
minScore == 7
NoScore == -1
RecaptchaAnswers ==
    [success : BOOLEAN, action : {DECLARED_ACTION, "other_action"}, score : {3, 7, 9, NoScore}]

\* lines 72-135, after the siteverify call returned `data`
AfterRecaptcha(e, f, data, now, k) ==
    IF ~data.success
    THEN Return(f, 400, corsHeaders, [error |-> "reCAPTCHA verification failed"])
    ELSE IF e.body.recaptcha_action # "" /\ data.action # e.body.recaptcha_action
    THEN Return(f, 400, corsHeaders,
                [error |-> "reCAPTCHA verification failed: Action mismatch"])
    ELSE IF data.score # NoScore /\ data.score < minScore      \* undefined < 0.7 is false
    THEN Return(f, 400, corsHeaders,
                [error |-> "Security verification failed. Please try again."])
    ELSE CheckSignature(e, f, now, k)

\* mutant: a failed siteverify call is answered like a failed verification
RecaptchaThrewAsRejection(f) ==
    Return(f, 400, corsHeaders, [error |-> "Error verifying reCAPTCHA token"])

\* mutant: the exception of the siteverify call escapes the handler
RecaptchaThrewEscaping(f) ==
    [pc |-> "crashed", frame |-> f, issued |-> <<>>, response |-> NoResponse]

\* lines 125-135, the siteverify call threw
RecaptchaThrew(f) ==
    Return(f, 500, corsHeaders, [error |-> "Error verifying reCAPTCHA token"])

\* mutant: the product of the first resolved line item is kept
AfterVariantKeepingFirst(f, productIdInResponse, now, k) ==
    LET g == IF productIdInResponse # Absent
             THEN [f EXCEPT !.productId = IF @ = NullId THEN productIdInResponse ELSE @,
                            !.draft_order.line_items[f.i].product_id = productIdInResponse]
             ELSE f
    IN  ProcessLineItems(g, f.i + 1, now, k)

\* lines 214-225 after the variant call returned; productIdInResponse is
\* variantResponse.data.variant.product_id, Absent when the response has none
AfterVariant(f, productIdInResponse, now, k) ==
    LET g == IF productIdInResponse # Absent
             THEN [f EXCEPT !.productId = productIdInResponse,
                            !.draft_order.line_items[f.i].product_id = productIdInResponse]
             ELSE f
    IN  ProcessLineItems(g, f.i + 1, now, k)

\* mutant: the lookup's exception reaches the outer catch
VariantThrewUncaught(f, now, k) == Catch(f, ThrownError("Shopify API Error"))

\* lines 226-231, the variant call threw: logged, and the loop goes on
VariantThrew(f, now, k) == ProcessLineItems(f, f.i + 1, now, k)

\* lines 473-625 from metafield `n` on: post it, or return the 200 response
AddDraftOrderMetafields(f, n) ==
    IF n <= Len(draftOrderMetafields)
    THEN Await(f, "orderMetafield", <<"POST", "draft_orders/metafields.json", draftOrderMetafields[n]>>)
    ELSE LET results == f.metafieldResults
             successful == Cardinality({j \in 1..Len(results) : results[j]})
         IN  Return(f, 200, corsHeaders \cup {<<"Content-Type", "application/json">>},
                [ success |-> TRUE,
                  reservation_number |-> f.reservationNumber,
                  draft_order |-> [id |-> f.draftOrderId],
                  product_status_updated |-> f.metafieldResult.kind # "null",
                  product_id |-> IF f.productId # NullId THEN f.productId ELSE "Not found",
                  metafield_result |->
                      IF f.metafieldResult.kind # "null" THEN f.metafieldResult
                      ELSE [kind |-> "not attempted",
                            reason |-> IF f.productId # NullId THEN "Unknown error"
                                       ELSE "No product ID found"],
                  draft_order_metafields |->
                      [ total_attempted |-> Len(draftOrderMetafields),
                        successful |-> successful,
                        failed |-> Len(results) - successful,
                        details |-> [j \in 1..Len(results) |->
                                        [key |-> draftOrderMetafields[j], success |-> results[j]]] ] ])

\* mutant: the product is looked up whether or not one was resolved
AfterCreateAlwaysLookingUp(f, id) ==
    Await([f EXCEPT !.draftOrderId = id], "product", <<"GET", "products", f.productId>>)

\* lines 331-351 after the draft order was created with id `id`
AfterCreate(f, id) ==
    LET g == [f EXCEPT !.draftOrderId = id]
    IN  IF g.productId # NullId
        THEN Await(g, "product", <<"GET", "products", g.productId>>)
        ELSE AddDraftOrderMetafields(g, 1)

\* mutant: a failure while marking the product reaches the outer catch
ProductUpdateThrewUncaught(f) == Catch(f, ThrownError("Request failed"))

\* mutant: a failure while marking the product leaves no result
ProductUpdateThrewUnrecorded(f) == AddDraftOrderMetafields(f, 1)

\* lines 465-470: any failure while marking the product is kept as a result
ProductUpdateThrew(f) ==
    AddDraftOrderMetafields([f EXCEPT !.metafieldResult = [kind |-> "error"]], 1)

\* lines 353-364 after the product was fetched
AfterProduct(f) == Await(f, "metafields", <<"GET", "products/metafields.json", f.productId>>)

\* mutant: every write creates a new entry
WriteCallAlwaysCreating(f, key) == <<"POST", "products/metafields.json", key>>

\* PUT metafields/<id>.json when the listing had the key, POST otherwise
WriteCall(f, key) ==
    IF f.existingMetafields[key] # Absent
    THEN <<"PUT", "metafields", key>>
    ELSE <<"POST", "products/metafields.json", key>>

\* mutant: the reservation number is written before the availability status
AfterMetafieldsNumberFirst(f, metafields) ==
    LET g == [f EXCEPT !.existingMetafields = metafields]
    IN  Await(g, "availability", WriteCall(g, "reservation_number"))

\* lines 366-422 after the listing returned `metafields`
AfterMetafields(f, metafields) ==
    LET g == [f EXCEPT !.existingMetafields = metafields]
    IN  Await(g, "availability", WriteCall(g, "availability_status"))

\* mutant: the reservation number is not written to the product
AfterAvailabilityWriteOnly(f) == Await(f, "verify", <<"GET", "products/metafields.json", f.productId>>)

\* lines 424-433
AfterAvailabilityWrite(f) == Await(f, "reservationNumber", WriteCall(f, "reservation_number"))

\* lines 435-443
AfterReservationNumberWrite(f) == Await(f, "verify", <<"GET", "products/metafields.json", f.productId>>)

\* mutant: a re-read that shows another reservation's number ends in a conflict
AfterVerifyDetectingRace(f, updated) ==
    IF updated.reservation_number # f.reservationNumber
    THEN Return(f, 409, corsHeaders,
                [success |-> FALSE, error |-> "Product is already reserved",
                 error_type |-> "PRODUCT_ALREADY_RESERVED", product_id |-> f.productId])
    ELSE AddDraftOrderMetafields(
            [f EXCEPT !.metafieldResult =
                [kind |-> "ok",
                 availability_status |-> updated.availability_status,
                 reservation_number |-> f.reservationNumber]], 1)

\* lines 445-464 after the second listing returned `updated`
AfterVerify(f, updated) ==
    AddDraftOrderMetafields(
        [f EXCEPT !.metafieldResult =
            [kind |-> "ok",
             availability_status |-> updated.availability_status,
             reservation_number |-> f.reservationNumber]], 1)

\* mutant: the first failed metafield ends the loop
AfterDraftOrderMetafieldAborting(f, ok) ==
    LET g == [f EXCEPT !.metafieldResults = Append(@, ok)]
    IN  AddDraftOrderMetafields(g, IF ok THEN Len(g.metafieldResults) + 1
                                   ELSE Len(draftOrderMetafields) + 1)

\* lines 539-567 after one draft-order metafield call ended
AfterDraftOrderMetafield(f, ok) ==
    LET g == [f EXCEPT !.metafieldResults = Append(@, ok)]
    IN  AddDraftOrderMetafields(g, Len(g.metafieldResults) + 1)

----------------------------------------------------------------------------
(* The commerce backend and the actions *)

RESERVED == "Reserved"

\* a reservation number left on a product by an earlier reservation
EarlierReservation == generateReservationNumber([year |-> 2024, month |-> 11, day |-> 24], 0)

\* custom.stocking_number, a metafield of the catalogue entry that the
\* storefront reads
STOCKING_NUMBER == "<stocking number>"

\* the custom.* metafields a catalogue product can start with
InitialMetafields ==
    { [availability_status |-> Absent, reservation_number |-> Absent,
       stocking_number |-> STOCKING_NUMBER],
      [availability_status |-> "In stock", reservation_number |-> Absent,
       stocking_number |-> STOCKING_NUMBER],
      [availability_status |-> RESERVED, reservation_number |-> EarlierReservation,
       stocking_number |-> STOCKING_NUMBER] }

\* the environment may still fail a call of invocation r
CanFail(r) == faults[r] < budget

Outcomes(r, good, bad) == IF CanFail(r) THEN good \cup bad ELSE good

\* the handler of invocation r ran segment s
Resume(r, s) ==
    /\ pc' = [pc EXCEPT ![r] = s.pc]
    /\ frame' = [frame EXCEPT ![r] = s.frame]
    /\ response' = [response EXCEPT ![r] = s.response]
    /\ calls' = [calls EXCEPT ![r] = @ \o s.issued]

Failed(r, bad) == faults' = [faults EXCEPT ![r] = IF bad THEN @ + 1 ELSE @]

\* the platform invokes the handler with an event drawn from evs
Invoke(r, evs) ==
    /\ pc[r] = "idle"
    /\ \E e \in evs, d \in Draws :
          /\ event' = [event EXCEPT ![r] = e]
          /\ Resume(r, handler(e, d.now, d.k))
    /\ overlapped' = (overlapped \/ \E q \in Requests \ {r} : pc[q] \notin {"idle", "done"})
    /\ UNCHANGED <<page, env, budget, products, draftOrders, faults>>

Receive(r) == Invoke(r, Events)

ReceiveReservation(r) == Invoke(r, SingleItemEvents)

ReceiveAtGate(r) == Invoke(r, GateEvents \cup NotedEvents \cup UriEvents \cup TwoItemEvents)

\* axios.post(recaptchaVerifyUrl) returns or throws, lines 58-135
RecaptchaReturns(r) ==
    /\ pc[r] = "recaptcha"
    /\ \E out \in Outcomes(r, [threw : {FALSE}, data : RecaptchaAnswers],
                              [threw : {TRUE}, data : {CHOOSE d \in RecaptchaAnswers : TRUE}]),
          d \in Draws :
          /\ Resume(r, IF out.threw THEN RecaptchaThrew(frame[r])
                       ELSE AfterRecaptcha(event[r], frame[r], out.data, d.now, d.k))
          /\ Failed(r, out.threw)
    /\ UNCHANGED <<page, env, budget, products, draftOrders, event, overlapped>>

\* axios.get(variants/<id>.json) returns or throws, lines 203-231; the
\* backend has no variant under an id that is not one of its numbers
VariantReturns(r) ==
    /\ pc[r] = "variant"
    /\ LET v == frame[r].draft_order.line_items[frame[r].i].variant_id
           known == v \in Variants
       IN  \E out \in (IF known THEN Outcomes(r, {VariantProduct(v)}, {Absent, "threw"})
                       ELSE {"threw"}),
              d \in Draws :
              /\ Resume(r, IF out = "threw" THEN VariantThrew(frame[r], d.now, d.k)
                           ELSE AfterVariant(frame[r], out, d.now, d.k))
              /\ Failed(r, known /\ out \in {Absent, "threw"})
    /\ UNCHANGED <<page, env, budget, products, draftOrders, event, overlapped>>

\* how axios.post(draft_orders.json) can fail: error.response.status (0: no
\* response) and whether error.response.data.errors is set
CreateErrors ==
    { [status |-> 401, errors |-> TRUE, message |-> "Request failed with status code 401"],
      [status |-> 401, errors |-> FALSE, message |-> "Request failed with status code 401"],
      [status |-> 422, errors |-> TRUE, message |-> "Request failed with status code 422"],
      [status |-> 500, errors |-> FALSE, message |-> "Request failed with status code 500"],
      [status |-> 0, errors |-> FALSE, message |-> "Network Error"] }

Created == [status |-> 201, errors |-> FALSE, message |-> ""]

\* the record the backend keeps of a draft order it created
NewDraftOrder(id, payload) ==
    [id |-> id, line_items |-> payload.line_items, note |-> payload.note,
     tags |-> payload.tags, metafields |-> {}]

\* axios.post(draft_orders.json) returns or throws, lines 320-333
CreateReturns(r) ==
    /\ pc[r] = "create"
    /\ \E out \in Outcomes(r, {Created}, CreateErrors) :
          LET id == Len(draftOrders) + 1
          IN  /\ draftOrders' = IF out = Created
                                THEN Append(draftOrders, NewDraftOrder(id, frame[r].draft_order))
                                ELSE draftOrders
              /\ Resume(r, IF out = Created THEN AfterCreate(frame[r], id)
                           ELSE Catch(frame[r], out))
              /\ Failed(r, out # Created)
    /\ UNCHANGED <<page, env, budget, products, event, overlapped>>

\* axios.get(products/<id>.json) returns or throws, lines 344-354
ProductReturns(r) ==
    /\ pc[r] = "product"
    /\ \E ok \in Outcomes(r, {TRUE}, {FALSE}) :
          /\ Resume(r, IF ok THEN AfterProduct(frame[r]) ELSE ProductUpdateThrew(frame[r]))
          /\ Failed(r, ~ok)
    /\ UNCHANGED <<page, env, budget, products, draftOrders, event, overlapped>>

\* axios.get(products/<id>/metafields.json) returns or throws, lines 357-367
MetafieldsReturn(r) ==
    /\ pc[r] = "metafields"
    /\ \E ok \in Outcomes(r, {TRUE}, {FALSE}) :
          /\ Resume(r, IF ok THEN AfterMetafields(frame[r], products[frame[r].productId])
                       ELSE ProductUpdateThrew(frame[r]))
          /\ Failed(r, ~ok)
    /\ UNCHANGED <<page, env, budget, products, draftOrders, event, overlapped>>

\* mutant: the value is stored on every product
SetMetafieldOnEveryProduct(productId, key, value) ==
    [p \in Products |-> [products[p] EXCEPT ![key] = value]]

\* the backend stores value under custom.<key> of the product (PUT and POST alike)
SetMetafield(productId, key, value) ==
    [products EXCEPT ![productId][key] = value]

\* updateMetafield / createMetafield of availability_status returns or throws, lines 413-422
AvailabilityWriteReturns(r) ==
    /\ pc[r] = "availability"
    /\ \E ok \in Outcomes(r, {TRUE}, {FALSE}) :
          /\ products' = IF ok THEN SetMetafield(frame[r].productId, "availability_status", RESERVED)
                         ELSE products
          /\ Resume(r, IF ok THEN AfterAvailabilityWrite(frame[r])
                       ELSE ProductUpdateThrew(frame[r]))
          /\ Failed(r, ~ok)
    /\ UNCHANGED <<page, env, budget, draftOrders, event, overlapped>>

\* updateMetafield / createMetafield of reservation_number returns or throws, lines 424-433
ReservationNumberWriteReturns(r) ==
    /\ pc[r] = "reservationNumber"
    /\ \E ok \in Outcomes(r, {TRUE}, {FALSE}) :
          /\ products' = IF ok THEN SetMetafield(frame[r].productId, "reservation_number",
                                                 frame[r].reservationNumber)
                         ELSE products
          /\ Resume(r, IF ok THEN AfterReservationNumberWrite(frame[r])
                       ELSE ProductUpdateThrew(frame[r]))
          /\ Failed(r, ~ok)
    /\ UNCHANGED <<page, env, budget, draftOrders, event, overlapped>>

\* the verifying axios.get(products/<id>/metafields.json) returns or throws, lines 436-470
VerifyReturns(r) ==
    /\ pc[r] = "verify"
    /\ \E ok \in Outcomes(r, {TRUE}, {FALSE}) :
          /\ Resume(r, IF ok THEN AfterVerify(frame[r], products[frame[r].productId])
                       ELSE ProductUpdateThrew(frame[r]))
          /\ Failed(r, ~ok)
    /\ UNCHANGED <<page, env, budget, products, draftOrders, event, overlapped>>

\* axios.post(draft_orders/<id>/metafields.json) returns or throws, lines 541-566
DraftOrderMetafieldReturns(r) ==
    /\ pc[r] = "orderMetafield"
    /\ \E ok \in Outcomes(r, {TRUE}, {FALSE}) :
          LET key == draftOrderMetafields[Len(frame[r].metafieldResults) + 1]
              id == frame[r].draftOrderId
          IN  /\ draftOrders' = IF ok THEN [draftOrders EXCEPT ![id].metafields = @ \cup {key}]
                                ELSE draftOrders
              /\ Resume(r, AfterDraftOrderMetafield(frame[r], ok))
              /\ Failed(r, ~ok)
    /\ UNCHANGED <<page, env, budget, products, event, overlapped>>

----------------------------------------------------------------------------
(* The storefront form, extensions/reserve-product/assets/form-handler.js   *)

\* what the theme can put on the submit button
Labels == {"Reserve", "Reserver ce produit", ""}

\* the page after DOMContentLoaded (lines 1-6): the button's text is stored
\* as data-original-text; grecaptcha is defined once its script has loaded
PageAtLoad(label, loaded) ==
    [ disabled |-> FALSE, loading |-> FALSE, innerText |-> label,
      originalText |-> label, grecaptcha |-> loaded,
      language |-> "en", location |-> <<"/products/">>,
      step |-> "ready", message |-> "", submissions |-> 0 ]

\* toggleLoadingState, lines 453-467; the text restored is the button's
\* innerText as it is when the function is entered
toggleLoadingState(p, isLoading) ==
    LET submitButtonText == p.innerText
    IN  IF isLoading
        THEN [p EXCEPT !.disabled = TRUE, !.loading = TRUE, !.innerText = "Submitting..."]
        ELSE [p EXCEPT !.disabled = FALSE, !.loading = FALSE,
                       !.innerText = IF submitButtonText # "" THEN submitButtonText ELSE "Submit"]

\* a step of the page; the backend is not touched by it
PageStep(p) ==
    /\ page' = p
    /\ UNCHANGED <<env, budget, products, draftOrders, pc, event, frame, response,
                   calls, faults, overlapped>>

\* the submit listener, lines 11-56; a disabled button submits nothing
Submit ==
    /\ page.step = "ready"
    /\ ~page.disabled
    /\ page.submissions < MaxSubmissions
    /\ LET p == [toggleLoadingState(page, TRUE) EXCEPT !.submissions = @ + 1, !.message = ""]
       IN  IF p.grecaptcha
           THEN PageStep([p EXCEPT !.step = "executing"])
           ELSE PageStep([toggleLoadingState(p, FALSE) EXCEPT !.message =
                    "Security verification not available. Please refresh the page and try again."])

\* the script appended at lines 59-71 has loaded
RecaptchaScriptLoads ==
    /\ ~page.grecaptcha
    /\ PageStep([page EXCEPT !.grecaptcha = TRUE])

\* grecaptcha.execute resolved with a token: createDraftOrder sends the
\* request, lines 37-44 and 305-395
ExecuteResolves ==
    /\ page.step = "executing"
    /\ PageStep([page EXCEPT !.step = "fetching"])

\* grecaptcha.execute rejected, lines 45-49
ExecuteRejects ==
    /\ page.step = "executing"
    /\ PageStep([toggleLoadingState(page, FALSE) EXCEPT
                    !.step = "ready",
                    !.message = "Security verification failed. Please try again."])

\* the backend answered ok: the browser leaves for the confirmation page,
\* lines 409-440
FetchSucceeds ==
    /\ page.step = "fetching"
    /\ PageStep([page EXCEPT
                    !.step = "redirected",
                    !.location = IF page.language = "en"
                                 THEN <<"/pages/reservation-confirmation">>
                                 ELSE <<"/", page.language, "/pages/reservation-confirmation">>])

\* fetch rejected or the response was not ok, lines 398-406 and 442-447
FetchFails ==
    /\ page.step = "fetching"
    /\ PageStep([toggleLoadingState(page, FALSE) EXCEPT
                    !.step = "ready",
                    !.message = "There was an error submitting your reservation. Please try again."])

InitInvocations(n) ==
    /\ page = PageAtLoad("Reserve", TRUE)
    /\ draftOrders = <<>>
    /\ pc = [r \in 1..n |-> "idle"]
    /\ event = [r \in 1..n |-> NoEvent]
    /\ frame = [r \in 1..n |-> EmptyFrame]
    /\ response = [r \in 1..n |-> NoResponse]
    /\ calls = [r \in 1..n |-> <<>>]
    /\ faults = [r \in 1..n |-> 0]
    /\ overlapped = FALSE

\* one invocation, any deployment, any event, any catalogue state
Init ==
    /\ env \in Envs
    /\ budget = MaxFaults
    /\ products \in [Products -> InitialMetafields]
    /\ InitInvocations(1)

Next ==
    \/ \E r \in Requests : Receive(r)
    \/ \E r \in Requests : RecaptchaReturns(r)
    \/ \E r \in Requests : VariantReturns(r)
    \/ \E r \in Requests : CreateReturns(r)
    \/ \E r \in Requests : ProductReturns(r)
    \/ \E r \in Requests : MetafieldsReturn(r)
    \/ \E r \in Requests : AvailabilityWriteReturns(r)
    \/ \E r \in Requests : ReservationNumberWriteReturns(r)
    \/ \E r \in Requests : VerifyReturns(r)
    \/ \E r \in Requests : DraftOrderMetafieldReturns(r)

Spec == Init /\ [][Next]_vars

\* several invocations of a fully configured deployment whose backend calls
\* all succeed, reserving products that are not reserved yet
InitShared ==
    /\ env = [SHOPIFY_ACCESS_TOKEN |-> TEST_TOKEN, SHOPIFY_API_SECRET |-> TEST_SECRET,
              RECAPTCHA_SECRET_KEY |-> TEST_RECAPTCHA_KEY]
    /\ budget = 0
    /\ products \in [Products -> {m \in InitialMetafields : m.availability_status # RESERVED}]
    /\ InitInvocations(NumRequests)

NextShared ==
    \/ \E r \in Requests : ReceiveReservation(r)
    \/ \E r \in Requests : RecaptchaReturns(r)
    \/ \E r \in Requests : VariantReturns(r)
    \/ \E r \in Requests : CreateReturns(r)
    \/ \E r \in Requests : ProductReturns(r)
    \/ \E r \in Requests : MetafieldsReturn(r)
    \/ \E r \in Requests : AvailabilityWriteReturns(r)
    \/ \E r \in Requests : ReservationNumberWriteReturns(r)
    \/ \E r \in Requests : VerifyReturns(r)
    \/ \E r \in Requests : DraftOrderMetafieldReturns(r)

SpecShared == InitShared /\ [][NextShared]_vars

\* one reservation on a fully configured deployment whose backend may fail
\* call after call, up to every call that follows the order's creation
InitUnreliable ==
    /\ env = [SHOPIFY_ACCESS_TOKEN |-> TEST_TOKEN, SHOPIFY_API_SECRET |-> TEST_SECRET,
              RECAPTCHA_SECRET_KEY |-> TEST_RECAPTCHA_KEY]
    /\ budget = MaxLaterFaults
    /\ products \in [Products -> InitialMetafields]
    /\ InitInvocations(1)

SpecUnreliable == InitUnreliable /\ [][NextShared]_vars

\* one invocation against a catalogue that is in stock: any deployment, any
\* method, body and query around one line item, and the signed orders for
\* a variant named by URI and for two line items
InitGates ==
    /\ env \in Envs
    /\ budget = MaxFaults
    /\ products = [p \in Products |-> [availability_status |-> "In stock",
                                       reservation_number |-> Absent,
                                       stocking_number |-> STOCKING_NUMBER]]
    /\ InitInvocations(1)

NextGates ==
    \/ \E r \in Requests : ReceiveAtGate(r)
    \/ \E r \in Requests : RecaptchaReturns(r)
    \/ \E r \in Requests : VariantReturns(r)
    \/ \E r \in Requests : CreateReturns(r)
    \/ \E r \in Requests : ProductReturns(r)
    \/ \E r \in Requests : MetafieldsReturn(r)
    \/ \E r \in Requests : AvailabilityWriteReturns(r)
    \/ \E r \in Requests : ReservationNumberWriteReturns(r)
    \/ \E r \in Requests : VerifyReturns(r)
    \/ \E r \in Requests : DraftOrderMetafieldReturns(r)

SpecGates == InitGates /\ [][NextGates]_vars

\* the same, where every awaited call eventually returns or fails: a promise
\* that axios settles resumes the handler, which then moves to its next
\* await or its return
SpecGatesFair ==
    /\ SpecGates
    /\ WF_<<pc, calls>>(\E r \in Requests : RecaptchaReturns(r))
    /\ WF_<<pc, calls>>(\E r \in Requests : VariantReturns(r))
    /\ WF_<<pc, calls>>(\E r \in Requests : CreateReturns(r))
    /\ WF_<<pc, calls>>(\E r \in Requests : ProductReturns(r))
    /\ WF_<<pc, calls>>(\E r \in Requests : MetafieldsReturn(r))
    /\ WF_<<pc, calls>>(\E r \in Requests : AvailabilityWriteReturns(r))
    /\ WF_<<pc, calls>>(\E r \in Requests : ReservationNumberWriteReturns(r))
    /\ WF_<<pc, calls>>(\E r \in Requests : VerifyReturns(r))
    /\ WF_<<pc, calls>>(\E r \in Requests : DraftOrderMetafieldReturns(r))

\* one storefront page with any button label, in English or French, before
\* or after the reCAPTCHA script loaded; its submissions succeed or fail in
\* any way
InitForm ==
    /\ env = [SHOPIFY_ACCESS_TOKEN |-> TEST_TOKEN, SHOPIFY_API_SECRET |-> TEST_SECRET,
              RECAPTCHA_SECRET_KEY |-> TEST_RECAPTCHA_KEY]
    /\ budget = 0
    /\ products = [p \in Products |-> [availability_status |-> "In stock",
                                       reservation_number |-> Absent,
                                       stocking_number |-> STOCKING_NUMBER]]
    /\ draftOrders = <<>>
    /\ pc = [r \in 1..1 |-> "idle"]
    /\ event = [r \in 1..1 |-> NoEvent]
    /\ frame = [r \in 1..1 |-> EmptyFrame]
    /\ response = [r \in 1..1 |-> NoResponse]
    /\ calls = [r \in 1..1 |-> <<>>]
    /\ faults = [r \in 1..1 |-> 0]
    /\ overlapped = FALSE
    /\ page \in {[PageAtLoad(label, loaded) EXCEPT !.language = language] :
                    label \in Labels, loaded \in BOOLEAN, language \in {"en", "fr"}}

NextForm ==
    \/ Submit
    \/ RecaptchaScriptLoads
    \/ ExecuteResolves
    \/ ExecuteRejects
    \/ FetchSucceeds
    \/ FetchFails

SpecForm == InitForm /\ [][NextForm]_vars

----------------------------------------------------------------------------
(* Vocabulary of the properties *)

Done(r) == pc[r] = "done"

Status(r) == response[r].statusCode

\* the response carries a JSON body with this error
Rejected(r, statusCode, error) ==
    /\ Done(r)
    /\ Status(r) = statusCode
    /\ response[r].body.error = error

Issued(r, call) == \E n \in 1..Len(calls[r]) : calls[r][n] = call

RecaptchaCall == <<"POST", "recaptcha/api/siteverify">>
CreateCall == <<"POST", "draft_orders.json">>

\* the calls of invocation r that went to the commerce backend
CommerceCalls(r) == {n \in 1..Len(calls[r]) : calls[r][n] # RecaptchaCall}

\* a call of r that writes product or order metadata
IssuedMetadataWrite(r) ==
    \E n \in 1..Len(calls[r]) :
        \/ calls[r][n][1] = "PUT"
        \/ calls[r][n][1] = "POST" /\ calls[r][n] \notin {RecaptchaCall, CreateCall}

IssuedAvailabilityWrite(r) ==
    \/ Issued(r, <<"PUT", "metafields", "availability_status">>)
    \/ Issued(r, <<"POST", "products/metafields.json", "availability_status">>)

\* the draft order as the handler holds it, with the looked-up product ids
Items(r) == frame[r].draft_order.line_items

\* the signature is the digest of the one canonical serialization
CanonicallySigned(r) ==
    /\ env.SHOPIFY_API_SECRET # ""
    /\ event[r].query.signature = Hmac(env.SHOPIFY_API_SECRET, Method4String(event[r].query.params))

SpamGateErrors ==
    { "reCAPTCHA verification failed: No token provided", "reCAPTCHA verification failed",
      "reCAPTCHA verification failed: Action mismatch",
      "Security verification failed. Please try again.", "Error verifying reCAPTCHA token" }

\* the invocation is past the Spam Gate (which is skipped when not configured)
PassedSpamGate(r) ==
    /\ pc[r] \notin {"idle", "recaptcha"}
    /\ ~(Done(r) /\ Status(r) \in {400, 500} /\ response[r].body.error \in SpamGateErrors)

MissingQueryParameters(r) ==
    \/ event[r].query.signature = NoSig
    \/ ~HasKey(event[r].query.params, "timestamp")

\* a POST with a draft order that is past the Spam Gate
WellFormedPost(r) ==
    /\ event[r].httpMethod = "POST"
    /\ event[r].body.kind = "object"
    /\ event[r].body.draft_order.given
    /\ PassedSpamGate(r)

\* a valid request: well-formed, canonically signed, served by a deployment
\* that holds its access token
ValidPost(r) ==
    /\ WellFormedPost(r)
    /\ HasKey(event[r].query.params, "timestamp")
    /\ CanonicallySigned(r)
    /\ env.SHOPIFY_ACCESS_TOKEN # ""

\* product p was Reserved before invocation r wrote anything to it (r writes
\* only to frame[r].productId, and only after it has read the listing)
ReservedBefore(r, p) ==
    IF p = frame[r].productId /\ IssuedAvailabilityWrite(r)
    THEN frame[r].existingMetafields.availability_status = RESERVED
    ELSE products[p].availability_status = RESERVED

\* the products r resolved from its line items so far
ResolvedProducts(r) ==
    {Items(r)[j].product_id : j \in {n \in 1..Len(Items(r)) : Items(r)[n].product_id # Absent}}

\* the backend created r's draft order
OrderCreated(r) == frame[r].draftOrderId # 0

\* the 200 response of r is well formed and names r's order
Success(r) ==
    /\ Done(r)
    /\ Status(r) = 200
    /\ response[r].body.success
    /\ MatchesReservationFormat(response[r].body.reservation_number)
    /\ response[r].body.draft_order.id \in 1..Len(draftOrders)
    /\ LET tags == draftOrders[response[r].body.draft_order.id].tags
           number == response[r].body.reservation_number
       IN  Len(tags) >= Len(number) /\ SubSeq(tags, 1, Len(number)) = number

Conflict(r, p) ==
    /\ Rejected(r, 409, "Product is already reserved")
    /\ response[r].body.success = FALSE
    /\ response[r].body.error_type = "PRODUCT_ALREADY_RESERVED"
    /\ response[r].body.product_id = p

----------------------------------------------------------------------------
(* C1: a valid POST whose variant resolves to a product whose               *)
(* custom.availability_status is Reserved is answered 409 "Product is       *)
(* already reserved", error_type PRODUCT_ALREADY_RESERVED, with the         *)
(* resolved product id.  Stated for the requests whose backend calls all   *)
(* succeed, as in the test suite.  The handler has no such check: the       *)
(* statement is violated.                                                   *)
C1_ReservedProductIsRefused ==
    \A r \in Requests :
        (/\ Done(r)
         /\ ValidPost(r)
         /\ faults[r] = 0
         /\ frame[r].productId # NullId
         /\ ReservedBefore(r, frame[r].productId))
            => Conflict(r, frame[r].productId)

(* C2: when a product resolved from the line items is already Reserved, the *)
(* request never invokes order creation and writes no product or order      *)
(* metadata.  Violated: the order is posted whatever the product's state.   *)
C2_NoOrderForReservedProduct ==
    \A r \in Requests :
        (/\ ValidPost(r)
         /\ \E p \in ResolvedProducts(r) : ReservedBefore(r, p))
            => /\ ~Issued(r, CreateCall)
               /\ ~IssuedMetadataWrite(r)
               /\ ~OrderCreated(r)

\* the requests that were answered 200 for product p
Reservations(p) ==
    {r \in Requests : Done(r) /\ Status(r) = 200 /\ response[r].body.product_id = p}

\* the draft orders with a line item of product p
OrdersOf(p) ==
    {n \in 1..Len(draftOrders) :
        \E j \in 1..Len(draftOrders[n].line_items) : draftOrders[n].line_items[j].product_id = p}

(* C3: strictly sequential valid requests for variants of one product, all  *)
(* backend calls succeeding: at most one is answered 200 and at most one    *)
(* draft order is created for the product.  Violated: the second request    *)
(* is served like the first.                                                *)
C3_SequentialRequestsReserveOnce ==
    ~overlapped =>
        \A p \in Products :
            /\ Cardinality(Reservations(p)) <= 1
            /\ Cardinality(OrdersOf(p)) <= 1

\* r read the listing of its product, and the listing did not say Reserved
ReadUnreserved(r) ==
    /\ pc[r] \in {"availability", "reservationNumber", "verify", "orderMetafield", "done"}
    /\ frame[r].productId # NullId
    /\ frame[r].metafieldResult.kind # "error"
    /\ frame[r].existingMetafields.availability_status # RESERVED

\* both read the state of the same product before either wrote it
Raced(r1, r2) ==
    /\ r1 # r2
    /\ ReadUnreserved(r1)
    /\ ReadUnreserved(r2)
    /\ frame[r1].productId = frame[r2].productId

(* C4: two valid requests for one not-yet-reserved product that both read   *)
(* the product state before either writes it both create a draft order,    *)
(* and both are answered 200: nothing between the read and the write        *)
(* detects the other request.                                               *)
C4_RaceCreatesTwoOrders ==
    \A r1, r2 \in Requests :
        Raced(r1, r2) =>
            /\ OrderCreated(r1) /\ OrderCreated(r2)
            /\ frame[r1].draftOrderId # frame[r2].draftOrderId
            /\ {frame[r1].draftOrderId, frame[r2].draftOrderId} \subseteq OrdersOf(frame[r1].productId)
            /\ Done(r1) => Success(r1)
            /\ Done(r2) => Success(r2)

\* C4's case: an overlapping pair that raced, both answered 200
C4_Witness ==
    \E r1, r2 \in Requests :
        /\ Raced(r1, r2)
        /\ overlapped
        /\ Success(r1) /\ Success(r2)
        /\ Cardinality(OrdersOf(frame[r1].productId)) = 2

(* C5: the verifier accepts exactly the canonical digest, and a request     *)
(* whose signature is not the canonical digest does not get past the        *)
(* signature check: it is answered 401 "Invalid signature".  Violated: the  *)
(* five legacy derivations are accepted as fallbacks.                       *)
C5_OnlyCanonicalSignature ==
    \A r \in Requests :
        (WellFormedPost(r) /\ ~MissingQueryParameters(r)) =>
            /\ verifyShopifySignature(env.SHOPIFY_API_SECRET, event[r].query).valid
                   <=> CanonicallySigned(r)
            /\ ~CanonicallySigned(r) => Rejected(r, 401, "Invalid signature")

GateErrors ==
    SpamGateErrors \cup
    { "Method not allowed", "Missing draft order data", "Missing required query parameters",
      "Invalid signature", "Server configuration error - missing access token" }

\* r was turned away by a gate: method, body, Spam Gate, query, signature, credential
RejectedAtGate(r) ==
    /\ Done(r)
    /\ Status(r) \in {400, 401, 405, 500}
    /\ response[r].body.error \in GateErrors

(* C6: a request rejected at a gate has had no effect on the commerce       *)
(* backend: it issued no call to it, no draft order exists and every        *)
(* product's metafields are as the catalogue set them.                      *)
C6_GateRejectionHasNoSideEffects ==
    \A r \in Requests :
        RejectedAtGate(r) =>
            /\ CommerceCalls(r) = {}
            /\ draftOrders = <<>>
            /\ \A p \in Products : products[p] \in InitialMetafields

\* C6's case: a well-formed POST with a bad signature, turned away
C6_Witness ==
    \E r \in Requests :
        /\ RejectedAtGate(r)
        /\ Rejected(r, 401, "Invalid signature")
        /\ Len(Items(r)) > 0

\* the product of the last line item whose lookup gave a product id
LastResolvedProduct(r) ==
    LET resolved == {n \in 1..Len(Items(r)) : Items(r)[n].product_id # Absent}
    IN  Items(r)[CHOOSE n \in resolved : \A m \in resolved : m <= n].product_id

\* r's variant resolved to a product that was not Reserved
ResolvedUnreserved(r) ==
    /\ frame[r].productId # NullId
    /\ ~ReservedBefore(r, frame[r].productId)

\* the 200 response C7 describes
ReservationResponse(r) ==
    /\ Success(r)
    /\ response[r].body.product_id = LastResolvedProduct(r)
    /\ \A n \in 1..Len(Items(r)) :
          Items(r)[n].product_id \in {Absent, VariantProduct(Items(r)[n].variant_id)}
    /\ response[r].body.draft_order.id = frame[r].draftOrderId

(* C7 as stated: every valid POST whose variant resolves to a product that  *)
(* is not Reserved is answered 200 with a well-formed reservation number,   *)
(* the resolved product id and the backend's order id.  Violated when the   *)
(* order-creation call fails.                                               *)
C7_AvailableProductAlways200 ==
    \A r \in Requests :
        (Done(r) /\ ValidPost(r) /\ ResolvedUnreserved(r)) => ReservationResponse(r)

(* C7 amended: every valid POST whose variant resolves to a product that is *)
(* not Reserved, and whose order-creation call succeeds, is answered 200    *)
(* with success, a reservation number matching RES-dddddd-dddd, product_id  *)
(* the product resolved from the submitted variant and draft_order.id the   *)
(* identifier the backend assigned.                                         *)
C7_AvailableProductReserved ==
    \A r \in Requests :
        (Done(r) /\ ValidPost(r) /\ ResolvedUnreserved(r) /\ OrderCreated(r))
            => ReservationResponse(r)

\* C7's case: an available product, reserved and reported
C7_Witness ==
    \E r \in Requests :
        /\ Done(r) /\ ValidPost(r) /\ ResolvedUnreserved(r) /\ OrderCreated(r)
        /\ products[frame[r].productId].availability_status = RESERVED
        /\ response[r].body.product_id = "67890"

\* a variant lookup of r ended without a product id (it threw, or the
\* response had none)
LookupFailed(r) ==
    \E n \in 1..Len(Items(r)) :
        /\ Items(r)[n].variant_id # Absent
        /\ Items(r)[n].product_id = Absent
        /\ Issued(r, <<"GET", "variants", Items(r)[n].variant_id>>)
        /\ pc[r] = "variant" => n < frame[r].i

(* C8: when a variant lookup fails the handler does not raise: the loop     *)
(* goes on to order creation, and when the order is created the response    *)
(* is 200 with success and a well-formed reservation number.                *)
C8_LookupFailureContinues ==
    \A r \in Requests :
        LookupFailed(r) =>
            /\ pc[r] # "variant" => Issued(r, CreateCall)
            /\ (Done(r) /\ OrderCreated(r)) => Success(r)

\* C8's case: the only lookup failed and the order was still created
C8_Witness ==
    \E r \in Requests :
        /\ LookupFailed(r)
        /\ Success(r)
        /\ response[r].body.product_id = "Not found"

(* C9 as stated: every request without signature or timestamp is answered  *)
(* 400 "Missing required query parameters".  Violated by the requests an    *)
(* earlier gate answers (OPTIONS, other methods, a missing draft order, the *)
(* Spam Gate).                                                              *)
C9_MissingParametersAlways400 ==
    \A r \in Requests :
        (Done(r) /\ MissingQueryParameters(r))
            => Rejected(r, 400, "Missing required query parameters")

(* C9 amended: every POST that carries a draft order and is past the Spam   *)
(* Gate, and lacks signature or timestamp, is answered 400 "Missing         *)
(* required query parameters".                                              *)
C9_MissingParameters400 ==
    \A r \in Requests :
        (Done(r) /\ WellFormedPost(r) /\ MissingQueryParameters(r))
            => Rejected(r, 400, "Missing required query parameters")

\* C9's case: a signed POST without timestamp
C9_Witness ==
    \E r \in Requests :
        /\ Done(r) /\ WellFormedPost(r)
        /\ event[r].query.signature # NoSig
        /\ ~HasKey(event[r].query.params, "timestamp")
        /\ Status(r) = 400

(* C10: every POST whose JSON body has no draft_order, an absent or empty   *)
(* body included, is answered 400 "Missing draft order data" before any     *)
(* gate or call.  Violated by the JSON body null: destructuring it throws,  *)
(* and the outer catch answers 500.                                         *)
C10_MissingDraftOrder400 ==
    \A r \in Requests :
        (/\ Done(r)
         /\ event[r].httpMethod = "POST"
         /\ event[r].body.kind # "invalid"
         /\ ~event[r].body.draft_order.given)
            => /\ Rejected(r, 400, "Missing draft order data")
               /\ calls[r] = <<>>

(* C11: every request whose method is neither POST nor OPTIONS is answered  *)
(* 405 "Method not allowed", whatever its body and query, and nothing else  *)
(* happens: no call, no local state, no draft order.                        *)
C11_OtherMethods405 ==
    \A r \in Requests :
        (pc[r] # "idle" /\ event[r].httpMethod \notin {"POST", "OPTIONS"}) =>
            /\ Rejected(r, 405, "Method not allowed")
            /\ calls[r] = <<>>
            /\ frame[r] = EmptyFrame
            /\ draftOrders = <<>>

\* C11's case: a signed GET whose body is no JSON
C11_Witness ==
    \E r \in Requests :
        /\ Done(r) /\ Status(r) = 405
        /\ event[r].httpMethod = "GET"
        /\ event[r].body.kind = "invalid"
        /\ event[r].query.signature # NoSig

(* C12: an OPTIONS request is always answered 204 with no body and exactly  *)
(* the three CORS headers, before the body is parsed, any gate is checked   *)
(* or any call is made.                                                     *)
C12_OptionsShortCircuits ==
    \A r \in Requests :
        (pc[r] # "idle" /\ event[r].httpMethod = "OPTIONS") =>
            /\ Done(r)
            /\ Status(r) = 204
            /\ DOMAIN response[r] = {"statusCode", "headers"}
            /\ response[r].headers = { <<"Access-Control-Allow-Origin", "*">>,
                                       <<"Access-Control-Allow-Headers", "Content-Type">>,
                                       <<"Access-Control-Allow-Methods", "POST, OPTIONS">> }
            /\ calls[r] = <<>>
            /\ frame[r] = EmptyFrame
            /\ draftOrders = <<>>

\* C12's case: an unsigned OPTIONS request whose body is no JSON
C12_Witness ==
    \E r \in Requests :
        /\ Done(r) /\ Status(r) = 204
        /\ event[r].httpMethod = "OPTIONS"
        /\ event[r].body.kind = "invalid"
        /\ event[r].query.signature = NoSig

(* C13: in every 200 response the reservation number is the one the         *)
(* submitted draft order carries: its note starts with "Reservation         *)
(* Number: " and the number, followed by the caller's note if any, and its  *)
(* tags start with the number, followed by the caller's tags if any.        *)
C13_ReservationNumberRoundTrip ==
    \A r \in Requests :
        (Done(r) /\ Status(r) = 200) =>
            LET number == response[r].body.reservation_number
                order == draftOrders[response[r].body.draft_order.id]
                given == event[r].body.draft_order
            IN  /\ MatchesReservationFormat(number)
                /\ order.note = <<"Reservation Number: ">> \o number
                        \o (IF given.note = <<>> THEN <<>> ELSE <<"\n\n">> \o given.note)
                /\ order.tags = number
                        \o (IF given.tags = <<>> THEN <<>> ELSE <<", ">> \o given.tags)

\* C13's case: a 200 response to a draft order that came with a note and tags
C13_Witness ==
    \E r \in Requests :
        /\ Done(r) /\ Status(r) = 200
        /\ event[r].body.draft_order.note # <<>>
        /\ event[r].body.draft_order.tags # <<>>

\* what the Spam Gate requires of a siteverify answer
AcceptableAnswer(r, data) ==
    /\ data.success
    /\ event[r].body.recaptcha_action # "" => data.action = event[r].body.recaptcha_action
    /\ data.score # NoScore
    /\ data.score >= minScore

\* segment s is a Spam Gate rejection that issued no call
SpamGateRejection(s) ==
    /\ s.pc = "done"
    /\ s.response.statusCode \in {400, 500}
    /\ s.response.body.error \in SpamGateErrors
    /\ s.issued = <<>>

(* C14: with a verification secret configured, every siteverify answer that *)
(* does not report success, the declared action (when one is declared) and  *)
(* a score of at least 0.7 is rejected, without reaching the signature      *)
(* check or order creation.  Violated: an answer without a score passes,    *)
(* because undefined < 0.7 is false.                                        *)
C14_SpamGateAcceptsOnlyGoodAnswers ==
    \A r \in Requests :
        pc[r] = "recaptcha" =>
            \A data \in RecaptchaAnswers, d \in Draws :
                ~AcceptableAnswer(r, data)
                    => SpamGateRejection(AfterRecaptcha(event[r], frame[r], data, d.now, d.k))

\* r was rejected by the Spam Gate
SpamGateRejected(r) ==
    /\ Done(r)
    /\ "body" \in DOMAIN response[r]
    /\ "error" \in DOMAIN response[r].body
    /\ response[r].body.error \in SpamGateErrors

(* C15: with no verification secret configured the Spam Gate is skipped:    *)
(* siteverify is never called, no Spam Gate rejection is returned, and a    *)
(* POST with a draft order gets the signature check's verdict, with or      *)
(* without a token or declared action.                                      *)
C15_SpamGateSkippedWithoutSecret ==
    \A r \in Requests :
        (/\ env.RECAPTCHA_SECRET_KEY = ""
         /\ pc[r] # "idle"
         /\ event[r].httpMethod = "POST"
         /\ event[r].body.kind = "object"
         /\ event[r].body.draft_order.given) =>
            /\ ~Issued(r, RecaptchaCall)
            /\ pc[r] # "recaptcha"
            /\ ~SpamGateRejected(r)
            /\ MissingQueryParameters(r)
                   => Rejected(r, 400, "Missing required query parameters")
            /\ (/\ ~MissingQueryParameters(r)
                /\ ~verifyShopifySignature(env.SHOPIFY_API_SECRET, event[r].query).valid)
                   => Rejected(r, 401, "Invalid signature")

\* C15's case: no secret, no token, no action, and the request is past the
\* signature check
C15_Witness ==
    \E r \in Requests :
        /\ env.RECAPTCHA_SECRET_KEY = ""
        /\ event[r].httpMethod = "POST"
        /\ event[r].body.draft_order.given
        /\ event[r].body.recaptcha_token = ""
        /\ event[r].body.recaptcha_action = ""
        /\ Issued(r, CreateCall)

(* C16 as stated: every Spam Gate rejection, the failed siteverify call     *)
(* included, has status 400.  Violated: the failed call is answered 500.    *)
C16_SpamGateRejectionsAre400 ==
    \A r \in Requests : SpamGateRejected(r) => Status(r) = 400

(* C16 amended: a missing token, a reported failure, a mismatched action    *)
(* and a score below the threshold are answered 400, each with its own      *)
(* error; an error calling siteverify is answered 500 "Error verifying      *)
(* reCAPTCHA token".                                                        *)
C16_SpamGateRejectionStatus ==
    \A r \in Requests :
        /\ SpamGateRejected(r) =>
              IF faults[r] > 0
              THEN Rejected(r, 500, "Error verifying reCAPTCHA token") /\ Issued(r, RecaptchaCall)
              ELSE /\ Status(r) = 400
                   /\ response[r].body.error # "Error verifying reCAPTCHA token"
                   /\ event[r].body.recaptcha_token = ""
                          <=> response[r].body.error =
                                  "reCAPTCHA verification failed: No token provided"
        /\ pc[r] = "recaptcha" =>
              /\ RecaptchaThrew(frame[r]).response.statusCode = 500
              /\ \A data \in RecaptchaAnswers, d \in Draws :
                    LET s == AfterRecaptcha(event[r], frame[r], data, d.now, d.k)
                    IN  /\ ~data.success
                            => (s.response.statusCode = 400
                                /\ s.response.body.error = "reCAPTCHA verification failed")
                        /\ (data.success /\ event[r].body.recaptcha_action # ""
                              /\ data.action # event[r].body.recaptcha_action)
                            => (s.response.statusCode = 400
                                /\ s.response.body.error =
                                       "reCAPTCHA verification failed: Action mismatch")
                        /\ (data.success /\ data.action = event[r].body.recaptcha_action
                              /\ data.score # NoScore /\ data.score < minScore)
                            => (s.response.statusCode = 400
                                /\ s.response.body.error =
                                       "Security verification failed. Please try again.")

\* C16's case: the siteverify call failed and the request was answered
C16_Witness ==
    \E r \in Requests :
        /\ SpamGateRejected(r)
        /\ faults[r] > 0
        /\ Issued(r, RecaptchaCall)

(* C17: a POST that passed the earlier gates on a deployment without the    *)
(* signing secret, or without the access token, is answered 500 with a      *)
(* server configuration error and makes no backend call.  Violated: without *)
(* the signing secret the verifier reports the signature invalid and the    *)
(* answer is 401 "Invalid signature".                                       *)
C17_MissingConfigurationIs500 ==
    \A r \in Requests :
        (/\ Done(r)
         /\ WellFormedPost(r)
         /\ ~MissingQueryParameters(r)
         /\ \/ env.SHOPIFY_API_SECRET = ""
            \/ /\ env.SHOPIFY_ACCESS_TOKEN = ""
               /\ verifyShopifySignature(env.SHOPIFY_API_SECRET, event[r].query).valid) =>
            /\ Status(r) = 500
            /\ CommerceCalls(r) = {}

\* the calls of r that post a draft-order metafield, in the order made
OrderMetafieldCalls(r) ==
    SelectSeq(calls[r], LAMBDA c : c[1] = "POST" /\ c[2] = "draft_orders/metafields.json")

(* C18: once the draft order is created the request ends in a 200 response  *)
(* that names it, whatever later product or order metadata calls fail; the  *)
(* order stays with the backend and no call deletes it.                     *)
C18_CreatedOrderIsNeverRolledBack ==
    \A r \in Requests :
        OrderCreated(r) =>
            /\ frame[r].draftOrderId \in 1..Len(draftOrders)
            /\ draftOrders[frame[r].draftOrderId].id = frame[r].draftOrderId
            /\ \A n \in 1..Len(calls[r]) : calls[r][n][1] \in {"GET", "POST", "PUT"}
            /\ Done(r) =>
                  /\ Success(r)
                  /\ response[r].body.draft_order.id = frame[r].draftOrderId

\* C18's case: the product lookup and all nine order metafields failed
C18_Witness ==
    \E r \in Requests :
        /\ Success(r)
        /\ frame[r].metafieldResult.kind = "error"
        /\ response[r].body.draft_order_metafields.failed = 9

(* C19: whenever the order was created, all nine order metafields are       *)
(* posted, in the fixed order, whatever the others' outcomes; the response  *)
(* tally has total_attempted = 9 = successful + failed, one detail per      *)
(* entry in that order, and a detail has success false exactly when the     *)
(* backend did not store the entry.                                         *)
C19_NineMetafieldsTally ==
    \A r \in Requests :
        (Done(r) /\ OrderCreated(r)) =>
            LET tally == response[r].body.draft_order_metafields
                stored == draftOrders[frame[r].draftOrderId].metafields
            IN  /\ tally.total_attempted = 9
                /\ tally.successful + tally.failed = 9
                /\ Len(tally.details) = 9
                /\ Len(OrderMetafieldCalls(r)) = 9
                /\ \A j \in 1..9 :
                      /\ tally.details[j].key = draftOrderMetafields[j]
                      /\ OrderMetafieldCalls(r)[j][3] = draftOrderMetafields[j]
                      /\ tally.details[j].success <=> draftOrderMetafields[j] \in stored
                /\ tally.successful = Cardinality(stored)

\* C19's case: the first write failed, the second succeeded, the last failed
C19_Witness ==
    \E r \in Requests :
        /\ Done(r) /\ OrderCreated(r)
        /\ ~response[r].body.draft_order_metafields.details[1].success
        /\ response[r].body.draft_order_metafields.details[2].success
        /\ ~response[r].body.draft_order_metafields.details[9].success

\* the order-creation call of r failed and r was answered
CreateFailed(r) ==
    /\ Done(r)
    /\ Issued(r, CreateCall)
    /\ ~OrderCreated(r)

(* C20: a failed order-creation call is answered 401 "Access token expired  *)
(* or invalid" when the backend said 401 (with or without error detail),    *)
(* with the backend's status and error detail when another response         *)
(* carries detail, and 500 when there is no response; success is false and  *)
(* no metadata is written.                                                  *)
C20_CreateFailureMapping ==
    \A r \in Requests :
        /\ pc[r] = "create" =>
              \A error \in CreateErrors :
                  LET s == Catch(frame[r], error)
                  IN  /\ s.pc = "done"
                      /\ s.issued = <<>>
                      /\ s.response.body.success = FALSE
                      /\ error.status = 401 =>
                            /\ s.response.statusCode = 401
                            /\ s.response.body.error = "Access token expired or invalid"
                      /\ (error.status \notin {0, 401} /\ error.errors) =>
                            /\ s.response.statusCode = error.status
                            /\ s.response.body.error = "<error.response.data.errors>"
                      /\ error.status = 0 =>
                            /\ s.response.statusCode = 500
                            /\ s.response.body.error = error.message
        /\ CreateFailed(r) =>
              /\ Status(r) \in {401, 422, 500}
              /\ response[r].body.success = FALSE
              /\ ~IssuedMetadataWrite(r)
              /\ draftOrders = <<>>
              /\ \A p \in Products : products[p] \in InitialMetafields

\* C20's case: the backend answered the order creation with 401
C20_Witness ==
    \E r \in Requests :
        /\ CreateFailed(r)
        /\ Status(r) = 401
        /\ response[r].body.error = "Access token expired or invalid"


----------------------------------------------------------------------------
\* a response that carries a body with a non-empty error field
CarriesError(resp) ==
    /\ "body" \in DOMAIN resp
    /\ "error" \in DOMAIN resp.body
    /\ resp.body.error # ""

\* C21: every response whose status is neither 200 nor 204 carries a body
\* with a non-empty error field: the responses of the gates, of the Spam
\* Gate, of the signature and configuration checks, and of the outer catch
\* for whatever the order creation throws, an error with an empty message
\* included.
C21_FailuresCarryError ==
    \A r \in Requests :
        /\ (Done(r) /\ Status(r) \notin {200, 204}) => CarriesError(response[r])
        /\ pc[r] = "create" =>
              \A error \in CreateErrors \cup {ThrownError("")} :
                  LET s == Catch(frame[r], error)
                  IN  /\ s.pc = "done"
                      /\ s.response.statusCode \notin {200, 204}
                      /\ CarriesError(s.response)

\* C21's case: the order creation failed without a response and the request
\* was answered 500
C21_Witness ==
    \E r \in Requests :
        /\ CreateFailed(r)
        /\ Status(r) = 500
        /\ response[r].body.error = "Network Error"


----------------------------------------------------------------------------
\* the calls of r that write custom.<key> of its product
ProductWrites(r, key) ==
    {n \in 1..Len(calls[r]) :
        calls[r][n] \in {<<"PUT", "metafields", key>>, <<"POST", "products/metafields.json", key>>}}

\* r wrote each of the two entries once and its product holds Reserved and
\* the number of r's response
ReservedOnce(r) ==
    /\ frame[r].productId # NullId
    /\ Cardinality(ProductWrites(r, "availability_status")) = 1
    /\ Cardinality(ProductWrites(r, "reservation_number")) = 1
    /\ products[frame[r].productId].availability_status = RESERVED
    /\ products[frame[r].productId].reservation_number = response[r].body.reservation_number

\* C22 as stated: every request answered 200 has written the two entries of
\* its product once, and the product holds Reserved and the returned
\* number.  Violated: a request whose variant lookup or product-metadata
\* call failed is answered 200 as well.
C22_SuccessMutatesProductOnce ==
    \A r \in Requests : (Done(r) /\ Status(r) = 200) => ReservedOnce(r)

\* C22: a request answered 200 whose metafield_result carries no error and
\* no "not attempted" (the product was resolved and every product-metadata
\* call succeeded) has written each of the two entries exactly once, and,
\* no other request writing, its product holds availability status Reserved
\* and the reservation number of the response.
C22_ReportedWriteMutatesProductOnce ==
    \A r \in Requests :
        (/\ Done(r)
         /\ Status(r) = 200
         /\ response[r].body.metafield_result.kind = "ok")
            => /\ ReservedOnce(r)
               /\ response[r].body.product_id = frame[r].productId
               /\ response[r].body.product_status_updated

\* C22's case: a 200 response reporting the product write, after some order
\* metafield failed
C22_Witness ==
    \E r \in Requests :
        /\ Done(r)
        /\ Status(r) = 200
        /\ response[r].body.metafield_result.kind = "ok"
        /\ response[r].body.draft_order_metafields.failed > 0
        /\ ReservedOnce(r)


----------------------------------------------------------------------------
\* the dates new Date() is drawn from: every month and day of a few years
Dates == [year : {1999, 2000, 2025, 2099}, month : 0..11, day : 1..31]

TwoDigits(n) == <<DigitChars[(n \div 10) + 1], DigitChars[(n % 10) + 1]>>

RECURSIVE DecimalValue(_)
\* the number a sequence of digits denotes
DecimalValue(s) ==
    IF s = <<>> THEN 0
    ELSE 10 * DecimalValue(SubSeq(s, 1, Len(s) - 1))
            + (CHOOSE i \in 0..9 : DigitChars[i + 1] = s[Len(s)])

\* RES-YYMMDD-NNNN for this date, with some NNNN in 1000..9999
WellFormedNumber(s, now) ==
    /\ MatchesReservationFormat(s)
    /\ SubSeq(s, 5, 10) = TwoDigits(now.year % 100) \o TwoDigits(now.month + 1) \o TwoDigits(now.day)
    /\ DecimalValue(SubSeq(s, 12, 15)) \in 1000..9999

\* C23: every generated reservation number is RES-YYMMDD-NNNN with the
\* two-digit year and zero-padded month and day of the creation date and
\* NNNN in 1000..9999, for every draw k / RandGrid of [0, 1): the number of
\* every request that generated one, every draw on one date, and the lowest
\* and highest draw on every date.
C23_ReservationNumberFormat ==
    /\ \A r \in Requests :
          frame[r].reservationNumber # <<>> =>
              /\ MatchesReservationFormat(frame[r].reservationNumber)
              /\ \E d \in Draws : /\ frame[r].reservationNumber = generateReservationNumber(d.now, d.k)
                                  /\ WellFormedNumber(frame[r].reservationNumber, d.now)
    /\ (\A r \in Requests : pc[r] = "idle") =>
          /\ \A k \in 0..(RandGrid - 1) :
                /\ randomSuffix(k) \in 1000..9999
                /\ WellFormedNumber(generateReservationNumber([year |-> 2025, month |-> 0, day |-> 5], k),
                                    [year |-> 2025, month |-> 0, day |-> 5])
          /\ \A now \in Dates, k \in {0, RandGrid - 1} :
                WellFormedNumber(generateReservationNumber(now, k), now)

\* C23's case: a request drew the highest value and its number ends in 9999
C23_Witness ==
    \E r \in Requests :
        /\ frame[r].reservationNumber = generateReservationNumber(
                                            [year |-> 2026, month |-> 10, day |-> 30], RandGrid - 1)
        /\ SubSeq(frame[r].reservationNumber, 12, 15) = <<"9", "9", "9", "9">>
        /\ Done(r)
        /\ Status(r) = 200


----------------------------------------------------------------------------
\* C24: a POST whose shop query parameter is not the configured shop domain
\* does not lead to a draft order: order creation is never invoked for it.
\* Violated: the handler never compares the shop parameter with SHOP_DOMAIN,
\* and a request signed over another shop's name passes the signature check.
C24_ForeignShopCreatesNoOrder ==
    \A r \in Requests :
        (/\ event[r].httpMethod = "POST"
         /\ HasKey(event[r].query.params, "shop")
         /\ Param(event[r].query.params, "shop") # SHOP_DOMAIN)
            => /\ ~Issued(r, CreateCall)
               /\ ~OrderCreated(r)
               /\ ~(Done(r) /\ Status(r) = 200)


----------------------------------------------------------------------------
\* C25: for one request, no other writer: each of custom.availability_status
\* and custom.reservation_number is written by at most one call, an update
\* in place (PUT) exactly when the product has the entry and a creation
\* (POST) exactly when it has not; once both writes succeeded the product
\* holds availability_status "Reserved" and reservation_number = the
\* generated number, whatever its metafields were before.
C25_WriterUpdatesOrCreates ==
    \A r \in Requests :
        LET pid == frame[r].productId
            existing == frame[r].existingMetafields
            Update(key) == <<"PUT", "metafields", key>>
            Create(key) == <<"POST", "products/metafields.json", key>>
        IN  /\ \A key \in {"availability_status", "reservation_number"} :
                  /\ Cardinality(ProductWrites(r, key)) <= 1
                  /\ Issued(r, Update(key)) => existing[key] # Absent
                  /\ Issued(r, Create(key)) => existing[key] = Absent
            /\ pc[r] = "availability" =>
                  /\ existing = products[pid]
                  /\ calls[r][Len(calls[r])] =
                        IF products[pid].availability_status # Absent
                        THEN Update("availability_status") ELSE Create("availability_status")
            /\ pc[r] = "reservationNumber" =>
                  /\ existing.reservation_number = products[pid].reservation_number
                  /\ calls[r][Len(calls[r])] =
                        IF products[pid].reservation_number # Absent
                        THEN Update("reservation_number") ELSE Create("reservation_number")
            /\ (pc[r] = "verify" \/ frame[r].metafieldResult.kind = "ok") =>
                  /\ Cardinality(ProductWrites(r, "availability_status")) = 1
                  /\ Cardinality(ProductWrites(r, "reservation_number")) = 1
                  /\ products[pid].availability_status = RESERVED
                  /\ products[pid].reservation_number = frame[r].reservationNumber

\* C25's case: the product had an availability status and no reservation
\* number; the first was updated, the second created, and both writes succeeded
C25_Witness ==
    \E r \in Requests :
        /\ Done(r)
        /\ frame[r].metafieldResult.kind = "ok"
        /\ frame[r].existingMetafields.availability_status = "In stock"
        /\ Issued(r, <<"PUT", "metafields", "availability_status">>)
        /\ Issued(r, <<"POST", "products/metafields.json", "reservation_number">>)
        /\ products[frame[r].productId].reservation_number = frame[r].reservationNumber


----------------------------------------------------------------------------
\* C26: the product write is reported as successful (metafield_result
\* without an error) only if the re-read shows availability status Reserved
\* and the reservation number the request generated.  Stated for the re-read
\* that is about to return the product's current metafields.  Violated: the
\* re-read is logged and never compared, so a number that another request
\* wrote in between is reported as this request's success.
C26_SuccessOnlyAfterConfirmedReread ==
    \A r \in Requests :
        pc[r] = "verify" =>
            LET updated == products[frame[r].productId]
                s == AfterVerify(frame[r], updated)
            IN  s.frame.metafieldResult.kind = "ok" =>
                    /\ updated.availability_status = RESERVED
                    /\ updated.reservation_number = frame[r].reservationNumber


----------------------------------------------------------------------------
----------------------------------------------------------------------------
\* C28: when the order payload is submitted, every line item's variant and
\* product identifier is a number (or is not given): an identifier that came
\* in URI form gid://.../N has been replaced by N.  Violated: the handler
\* passes the identifiers on as they came, to the variant lookup and to the
\* order creation.
C28_SubmittedIdsAreNormalized ==
    \A r \in Requests :
        Issued(r, CreateCall) =>
            \A j \in 1..Len(Items(r)) :
                /\ Items(r)[j].variant_id \in Variants \cup {Absent}
                /\ Items(r)[j].product_id \in Products \cup {Absent}
                /\ event[r].body.draft_order.line_items[j].variant_id = UriVariant =>
                      /\ Items(r)[j].variant_id = "12345"
                      /\ Issued(r, <<"GET", "variants", "12345">>)


----------------------------------------------------------------------------
----------------------------------------------------------------------------
\* the calls cs of a request for these line items are in the order in which
\* the handler awaits them
CallsInOrder(cs, items) ==
    LET IsWrite(c) == c[1] = "PUT" \/ (c[1] = "POST" /\ c[2] = "products/metafields.json")
        Stage(n) ==
            IF cs[n] = RecaptchaCall THEN 1
            ELSE IF cs[n][1] = "GET" /\ cs[n][2] = "variants" THEN 2
            ELSE IF cs[n] = CreateCall THEN 3
            ELSE IF cs[n][1] = "GET" /\ cs[n][2] = "products" THEN 4
            ELSE IF cs[n][1] = "GET" /\ cs[n][2] = "products/metafields.json"
                 THEN (IF \E l \in 1..(n - 1) : IsWrite(cs[l]) THEN 8 ELSE 5)
            ELSE IF IsWrite(cs[n]) /\ cs[n][3] = "availability_status" THEN 6
            ELSE IF IsWrite(cs[n]) /\ cs[n][3] = "reservation_number" THEN 7
            ELSE 9
        variantCalls == SelectSeq(cs, LAMBDA c : c[1] = "GET" /\ c[2] = "variants")
        withVariant == SelectSeq(items, LAMBDA item : item.variant_id # Absent)
        orderCalls == SelectSeq(cs, LAMBDA c : c[1] = "POST" /\ c[2] = "draft_orders/metafields.json")
    IN  /\ \A n, m \in 1..Len(cs) :
              n < m => /\ Stage(n) <= Stage(m)
                       /\ Stage(n) = Stage(m) => Stage(n) \in {2, 9}
        /\ Len(variantCalls) <= Len(withVariant)
        /\ \A j \in 1..Len(variantCalls) : variantCalls[j][3] = withVariant[j].variant_id
        /\ (\E n \in 1..Len(cs) : cs[n] = CreateCall) => Len(variantCalls) = Len(withVariant)
        /\ Len(orderCalls) <= Len(draftOrderMetafields)
        /\ \A j \in 1..Len(orderCalls) : orderCalls[j][3] = draftOrderMetafields[j]
        /\ (\E n \in 1..Len(cs) : Stage(n) > 3) => (\E n \in 1..Len(cs) : cs[n] = CreateCall)

\* C30: within one request the external calls are issued one at a time, a
\* call only in the step in which the awaited one returned (or the request
\* arrived), and in the order siteverify, variant lookups in list order,
\* order creation, product lookup, metafield listing, availability write,
\* reservation-number write, re-read, the nine order metafields in their
\* order; every variant lookup precedes the order creation and every call
\* that writes metadata follows it.
C30_CallsAreSequential ==
    [][\A r \in Requests :
          /\ Len(calls'[r]) <= Len(calls[r]) + 1
          /\ SubSeq(calls'[r], 1, Len(calls[r])) = calls[r]
          /\ calls'[r] # calls[r] => pc'[r] \notin {"idle", "done"} /\ pc[r] # "done"
          /\ (pc'[r] \notin {"idle", "done"} /\ pc[r] # pc'[r]) => calls'[r] # calls[r]
          /\ CallsInOrder(calls'[r], event'[r].body.draft_order.line_items)]_vars

\* C30's case: a request for two variants made every call, from siteverify
\* to the ninth order metafield
C30_Witness ==
    \E r \in Requests :
        /\ Done(r)
        /\ Status(r) = 200
        /\ Len(Items(r)) = 2
        /\ Issued(r, RecaptchaCall)
        /\ Issued(r, <<"GET", "variants", "12347">>)
        /\ Issued(r, <<"GET", "variants", "12345">>)
        /\ frame[r].metafieldResult.kind = "ok"
        /\ Len(calls[r]) = 18


----------------------------------------------------------------------------
\* C31: a request posts to draft_orders.json at most once, and exactly once
\* when it is answered 200; no call is made a second time after it failed
\* (the only call made twice is the metafield listing, read again after the
\* two writes); the backend holds at most the one draft order of the request,
\* and holds it exactly when the creation succeeded.
C31_OrderCreatedAtMostOnce ==
    \A r \in Requests :
        LET creations == {n \in 1..Len(calls[r]) : calls[r][n] = CreateCall}
            IsWrite(c) == c[1] = "PUT" \/ (c[1] = "POST" /\ c[2] = "products/metafields.json")
        IN  /\ Cardinality(creations) <= 1
            /\ (Done(r) /\ Status(r) = 200) => Cardinality(creations) = 1
            /\ \A n, m \in 1..Len(calls[r]) :
                  (n < m /\ calls[r][n] = calls[r][m]) =>
                      /\ calls[r][n] = <<"GET", "products/metafields.json", frame[r].productId>>
                      /\ \E l \in (n + 1)..(m - 1) : IsWrite(calls[r][l])
                      /\ Cardinality({l \in 1..Len(calls[r]) : calls[r][l] = calls[r][n]}) = 2
            /\ Len(draftOrders) <= 1
            /\ Len(draftOrders) = 1 <=> OrderCreated(r)
            /\ CreateFailed(r) => /\ Done(r)
                                  /\ calls[r][Len(calls[r])] = CreateCall

\* C31's case: product-metadata and order-metafield calls failed, none was
\* repeated, and the request was answered 200 with its one draft order
C31_Witness ==
    \E r \in Requests :
        /\ Done(r)
        /\ Status(r) = 200
        /\ faults[r] >= 2
        /\ frame[r].metafieldResult.kind = "error"
        /\ Len(draftOrders) = 1


----------------------------------------------------------------------------
\* C32 as stated, for products no earlier reservation had marked: a product
\* whose availability status is Reserved carries a reservation number that
\* is the number of a draft order the backend holds.  Violated between the
\* two writes: the status is written first, the number by a later call.
C32_ReservedProductCarriesOrderNumber ==
    \A p \in Products :
        products[p].availability_status = RESERVED =>
            \E n \in 1..Len(draftOrders) :
                /\ products[p].reservation_number # Absent
                /\ Len(draftOrders[n].tags) >= Len(products[p].reservation_number)
                /\ SubSeq(draftOrders[n].tags, 1, Len(products[p].reservation_number))
                      = products[p].reservation_number

\* C32: under any interleaving of requests, for products no earlier
\* reservation had marked: a request issues a product-metadata write only
\* after its own draft order was created; a product whose availability
\* status is Reserved is the product of such a request, whose draft order the
\* backend holds under the request's number; and a reservation number on a
\* product is the number of a draft order the backend holds.
C32_ProductMarkedAfterOwnOrder ==
    LET Holds(number) ==
            \E n \in 1..Len(draftOrders) :
                /\ Len(draftOrders[n].tags) >= Len(number)
                /\ SubSeq(draftOrders[n].tags, 1, Len(number)) = number
    IN  /\ \A r \in Requests :
              (ProductWrites(r, "availability_status") \cup ProductWrites(r, "reservation_number")) # {}
                  => /\ OrderCreated(r)
                     /\ frame[r].draftOrderId \in 1..Len(draftOrders)
                     /\ Holds(frame[r].reservationNumber)
                     /\ \A w \in ProductWrites(r, "availability_status")
                                    \cup ProductWrites(r, "reservation_number") :
                           \E n \in 1..(w - 1) : calls[r][n] = CreateCall
        /\ \A p \in Products :
              /\ products[p].availability_status = RESERVED =>
                    \E r \in Requests :
                        /\ frame[r].productId = p
                        /\ ProductWrites(r, "availability_status") # {}
                        /\ OrderCreated(r)
              /\ products[p].reservation_number # Absent => Holds(products[p].reservation_number)

\* C32's case: a request has marked its product Reserved and has not yet
\* written the number, while another request is under way
C32_Witness ==
    \E r \in Requests :
        /\ pc[r] = "reservationNumber"
        /\ OrderCreated(r)
        /\ products[frame[r].productId].availability_status = RESERVED
        /\ products[frame[r].productId].reservation_number = Absent
        /\ \E q \in Requests \ {r} : pc[q] \notin {"idle", "done"}


----------------------------------------------------------------------------
\* C33: of the products a request resolved from its line items, the one of
\* the last line item whose lookup gave a product is the one it marks and
\* reports as product_id; every resolved product is named by a line item of
\* the created order, and every product but the last resolved one keeps the
\* metafields the catalogue gave it.
C33_OnlyLastResolvedProductMarked ==
    \A r \in Requests :
        /\ (pc[r] \notin {"idle", "recaptcha", "variant"} /\ ResolvedProducts(r) # {}) =>
              frame[r].productId = LastResolvedProduct(r)
        /\ \A p \in Products \ {frame[r].productId} :
              products[p] = [availability_status |-> "In stock", reservation_number |-> Absent,
                             stocking_number |-> STOCKING_NUMBER]
        /\ (Done(r) /\ Status(r) = 200 /\ ResolvedProducts(r) # {}) =>
              /\ response[r].body.product_id = LastResolvedProduct(r)
              /\ response[r].body.metafield_result.kind = "ok" =>
                    products[LastResolvedProduct(r)].availability_status = RESERVED
              /\ \A p \in ResolvedProducts(r) :
                    \E j \in 1..Len(draftOrders[frame[r].draftOrderId].line_items) :
                        draftOrders[frame[r].draftOrderId].line_items[j].product_id = p

\* C33's case: two line items resolved to two products; the second was
\* marked and reported, the first is in the order and still in stock
C33_Witness ==
    \E r \in Requests :
        /\ Done(r)
        /\ Status(r) = 200
        /\ ResolvedProducts(r) = {"67891", "67890"}
        /\ Items(r)[1].product_id = "67891"
        /\ response[r].body.product_id = "67890"
        /\ products["67890"].availability_status = RESERVED
        /\ products["67891"].availability_status = "In stock"
        /\ draftOrders[frame[r].draftOrderId].line_items[1].product_id = "67891"


----------------------------------------------------------------------------
\* C34: in every 200 response product_status_updated is true exactly when a
\* product was resolved from the line items, which is exactly when the
\* product update was started; metafield_result is then the result of the
\* update or its error, and is "not attempted" exactly when no product was
\* resolved.
C34_ProductStatusUpdatedIffResolved ==
    \A r \in Requests :
        (Done(r) /\ Status(r) = 200) =>
            LET body == response[r].body
                resolved == ResolvedProducts(r) # {}
            IN  /\ body.product_status_updated <=> resolved
                /\ resolved <=> frame[r].productId # NullId
                /\ resolved <=> Issued(r, <<"GET", "products", frame[r].productId>>)
                /\ resolved => body.metafield_result.kind \in {"ok", "error"}
                /\ ~resolved => /\ body.metafield_result.kind = "not attempted"
                                /\ body.product_id = "Not found"
                /\ body.metafield_result.kind = "error" => body.product_status_updated

\* C34's case: the product was resolved, a product-metadata call failed, and
\* the 200 response says product_status_updated with an error as the result
C34_Witness ==
    \E r \in Requests :
        /\ Done(r)
        /\ Status(r) = 200
        /\ response[r].body.product_status_updated
        /\ response[r].body.metafield_result.kind = "error"
        /\ products[frame[r].productId].availability_status # RESERVED


----------------------------------------------------------------------------
\* C35: a request that is through the gates and the line-item loop without a
\* resolved product (no variant reference, a failed lookup, or a variant
\* response without product_id) has posted the draft order, makes no product
\* lookup, no product-metadata read and no product-metadata write, leaves
\* every product as it was, and, the order created, is answered 200 with
\* product_id "Not found" and metafield_result reason "No product ID found".
C35_NoResolvedProductNoProductCalls ==
    \A r \in Requests :
        (/\ pc[r] \notin {"idle", "recaptcha", "variant"}
         /\ WellFormedPost(r)
         /\ ~RejectedAtGate(r)
         /\ ResolvedProducts(r) = {})
            => /\ Issued(r, CreateCall)
               /\ frame[r].productId = NullId
               /\ \A n \in 1..Len(calls[r]) :
                     calls[r][n][2] \notin {"products", "products/metafields.json", "metafields"}
               /\ \A p \in Products : products[p] \in InitialMetafields
               /\ pc[r] \in {"create", "orderMetafield", "done"}
               /\ (Done(r) /\ OrderCreated(r)) =>
                     /\ Status(r) = 200
                     /\ response[r].body.product_id = "Not found"
                     /\ response[r].body.metafield_result.kind = "not attempted"
                     /\ response[r].body.metafield_result.reason = "No product ID found"
                     /\ ~response[r].body.product_status_updated

\* C35's case: no line item names a variant, and the order was created
C35_Witness ==
    \E r \in Requests :
        /\ Done(r)
        /\ Status(r) = 200
        /\ Len(Items(r)) = 2
        /\ \A n \in 1..Len(Items(r)) : Items(r)[n].variant_id = Absent
        /\ calls[r][Len(calls[r]) - Len(draftOrderMetafields)] = CreateCall
        /\ response[r].body.product_id = "Not found"


----------------------------------------------------------------------------
\* C36: every response, of every success and failure path, carries
\* Access-Control-Allow-Origin *, Access-Control-Allow-Headers Content-Type
\* and Access-Control-Allow-Methods "POST, OPTIONS", each with that one
\* value; so does whatever the outer catch would answer to a failed order
\* creation.
C36_EveryResponseCarriesCors ==
    LET Carries(resp) ==
            /\ "headers" \in DOMAIN resp
            /\ \A h \in resp.headers :
                  /\ h[1] = "Access-Control-Allow-Origin" => h[2] = "*"
                  /\ h[1] = "Access-Control-Allow-Headers" => h[2] = "Content-Type"
                  /\ h[1] = "Access-Control-Allow-Methods" => h[2] = "POST, OPTIONS"
            /\ \A name \in {"Access-Control-Allow-Origin", "Access-Control-Allow-Headers",
                            "Access-Control-Allow-Methods"} :
                  \E h \in resp.headers : h[1] = name
    IN  \A r \in Requests :
            /\ Done(r) => Carries(response[r])
            /\ pc[r] = "create" =>
                  \A error \in CreateErrors : Carries(Catch(frame[r], error).response)

\* C36's case: the failure response of the outer catch, with its headers
C36_Witness ==
    \E r \in Requests :
        /\ CreateFailed(r)
        /\ Status(r) = 422
        /\ <<"Access-Control-Allow-Methods", "POST, OPTIONS">> \in response[r].headers
        /\ Cardinality(response[r].headers) = 3


----------------------------------------------------------------------------
\* C37: a POST whose body is present and is no JSON is answered 500 with
\* success false and the parser's message, by the outer catch and not by a
\* gate, whatever its token, query and signature and whatever the deployment
\* lacks; it issues no call and nothing is created.
C37_InvalidJsonIs500 ==
    \A r \in Requests :
        (/\ pc[r] # "idle"
         /\ event[r].httpMethod = "POST"
         /\ event[r].body.kind = "invalid")
            => /\ Done(r)
               /\ Status(r) = 500
               /\ response[r].body.success = FALSE
               /\ response[r].body.error = "SyntaxError: Unexpected token in JSON"
               /\ ~RejectedAtGate(r)
               /\ calls[r] = <<>>
               /\ draftOrders = <<>>

\* C37's case: the body is no JSON, the query has no signature and the
\* deployment expects a reCAPTCHA token
C37_Witness ==
    \E r \in Requests :
        /\ event[r].httpMethod = "POST"
        /\ event[r].body.kind = "invalid"
        /\ event[r].query.signature = NoSig
        /\ env.RECAPTCHA_SECRET_KEY # ""
        /\ Status(r) = 500


----------------------------------------------------------------------------
----------------------------------------------------------------------------
\* C39: after a failed submission (reCAPTCHA not loaded, grecaptcha.execute
\* rejected, or the request failed or was not ok) the submit button is not
\* loading, is enabled, and shows the text stored as data-original-text at
\* page load.  Violated: toggleLoadingState(false) restores the text the
\* button has when it is called, which is "Submitting...".
C39_ButtonRestoredAfterFailure ==
    (page.step = "ready" /\ page.submissions > 0 /\ page.message # "") =>
        /\ ~page.loading
        /\ ~page.disabled
        /\ page.innerText = page.originalText

====
